---- MODULE Spec2Model ----
(***************************************************************************)
(* Turn orchestration engine of tinker: Agent.Run (agent/agent.go), tool   *)
(* dispatch (local / MCP / plan / delegating), the subagent loop, the      *)
(* conversation (server/data) and the provider adapter's native history    *)
(* (inference).                                                            *)
(*                                                                         *)
(* One Run is modelled as a sequence of steps, one per external call that  *)
(* can fail or return control: the position inside Run is pc.  The LLM     *)
(* client, the tool functions, the MCP server and the store are            *)
(* collaborators behind interfaces: each call's result is a                *)
(* nondeterministic choice among the results the interface allows.         *)
(* Strings built by fmt.Sprintf or concatenation are sequences of chunks.  *)
(***************************************************************************)
EXTENDS Integers, Sequences, FiniteSets, Bags, TLC

\* ------------------------------------------------------------------ bounds
MaxRuns == 2
MaxToolUses == 2
MaxBlocks == 2
MaxPlanSteps == 1
MaxSubRounds == 1
MaxFaults == 1
MaxHist == 6
MaxThreshold == 4
MaxContentLen == 5
MaxProbeBlocks == 2
MaxPublish == 12
MaxNative == 2
MaxStored == 2
MaxTurns == 4
MaxTurnRounds == 2
MaxSnapshots == 3
MaxTokenCount == 2

\* ------------------------------------------------------- program constants
SummarizeThreshold == 20
TruncateThreshold == 25000
ChanCapacity == 10

UserRole == "user"
AssistantRole == "assistant"
ModelRole == "model"

\* ----------------------------------------------------------- content blocks
NewTextBlock(text) == [type |-> "text", text |-> text]
NewToolUseBlock(id, name, input) ==
    [type |-> "tool_use", id |-> id, name |-> name, input |-> input]
NewToolResultBlock(id, name, content, isError) ==
    [type |-> "tool_result", tool_use_id |-> id, tool_name |-> name,
     content |-> content, is_error |-> isError]

NewMessage(role, content) == [role |-> role, content |-> content, sequence |-> 0]

\* Conversation.Append: the sequence number is the length before the append.
AppendMsg(messages, msg) ==
    Append(messages, [msg EXCEPT !.sequence = Len(messages)])

\* BaseSummarizeHistory gone wrong: the slice of recent messages starts one
\* message late.
BaseSummarizeHistoryMutant(history, threshold) ==
    IF Len(history) <= threshold
    THEN history
    ELSE <<history[1]>> \o SubSeq(history, Len(history) - threshold + 2, Len(history))

\* BaseLLMClient.BaseSummarizeHistory
BaseSummarizeHistory(history, threshold) ==
    IF Len(history) <= threshold
    THEN history
    ELSE <<history[1]>> \o SubSeq(history, Len(history) - threshold + 1, Len(history))

\* ------------------------------------------------- provider adapter (native)
\* A native message keeps the role and the blocks; Sequence and CreatedAt are
\* not part of the provider's form.
NativeOf(msg) == [role |-> msg.role, content |-> msg.content]

\* AnthropicClient.ToNativeMessage: rejects a role that is neither user nor
\* assistant, appends one native message otherwise.  fault is a failure of the
\* call that the LLMClient interface allows for any message.
ToNativeMessage(history, msg, fault) ==
    IF fault \/ msg.role \notin {UserRole, AssistantRole}
    THEN [err |-> TRUE, history |-> history]
    ELSE [err |-> FALSE, history |-> Append(history, NativeOf(msg))]

\* AnthropicClient.ToNativeHistory: resets the native history, then translates
\* message by message and stops at the first one that fails.
RECURSIVE ToNativeFrom(_, _, _)
ToNativeFrom(history, messages, i) ==
    IF i > Len(messages)
    THEN [err |-> FALSE, history |-> history]
    ELSE LET r == ToNativeMessage(history, messages[i], FALSE)
         IN IF r.err THEN r ELSE ToNativeFrom(r.history, messages, i + 1)

ToNativeHistory(old, messages) ==
    IF Len(messages) = 0
    THEN [err |-> TRUE, history |-> old]
    ELSE ToNativeFrom(<<>>, messages, 1)

\* CountTokens: the provider counts over the native history; one token per
\* native message stands for the provider's accounting.
CountTokens(history) == Len(history)

\* ConversationModel.UpdateTokenCount: the one statement that writes the
\* token_count column of a stored conversation.  No step of Agent.Run calls it
\* (SaveConversation does not write the column either), so storedTokenCount
\* keeps the value the conversation was loaded with.
UpdateTokenCount(stored, count) == count

\* ------------------------------------------------------ conversation store
\* The id of the conversation the Agent works on.
ConvID == "c1"

\* json.Marshal of a content block: the variant is written as a type tag
\* next to the variant's fields.
EncodeBlock(b) ==
    IF b.type = "text"
    THEN [type |-> "text", data |-> [text |-> b.text]]
    ELSE IF b.type = "tool_use"
    THEN [type |-> "tool_use",
          data |-> [id |-> b.id, name |-> b.name, input |-> b.input]]
    ELSE [type |-> "tool_result",
          data |-> [tool_use_id |-> b.tool_use_id, tool_name |-> b.tool_name,
                    content |-> b.content, is_error |-> b.is_error]]

\* json.Unmarshal of a content block: the type tag selects the variant.
DecodeBlock(j) ==
    IF j.type = "text"
    THEN NewTextBlock(j.data.text)
    ELSE IF j.type = "tool_use"
    THEN NewToolUseBlock(j.data.id, j.data.name, j.data.input)
    ELSE NewToolResultBlock(j.data.tool_use_id, j.data.tool_name,
                            j.data.content, j.data.is_error)

\* The payload column of a message row: the role and the blocks.  The
\* sequence number is kept in its own column.
EncodeMessage(msg) ==
    [role |-> msg.role,
     content |-> [i \in DOMAIN msg.content |-> EncodeBlock(msg.content[i])]]

\* Get unmarshals the payload and restores Sequence from the column (846-851).
DecodeMessage(payload, sequenceNumber) ==
    [role |-> payload.role,
     content |-> [i \in DOMAIN payload.content |-> DecodeBlock(payload.content[i])],
     sequence |-> sequenceNumber]

\* INSERT OR IGNORE INTO conversations: a row is added unless the id has one.
InsertOrIgnore(conversations, id) ==
    IF \E i \in DOMAIN conversations : conversations[i].id = id
    THEN conversations
    ELSE Append(conversations, [id |-> id])

\* The rows Save inserts for the messages of c: the sequence number is the
\* index of the loop (714-726), from 0.
MessageRows(id, messages) ==
    [i \in DOMAIN messages |->
        [conversation_id |-> id, sequence_number |-> i - 1,
         payload |-> EncodeMessage(messages[i])]]

RowsOf(table, id) == SelectSeq(table, LAMBDA r : r.conversation_id = id)
RowsNotOf(table, id) == SelectSeq(table, LAMBDA r : r.conversation_id # id)

\* Save gone wrong: the messages of the conversation are inserted without
\* deleting the rows of the earlier Save.
SaveMutant(conversations, table, id, messages, failed) ==
    IF failed
    THEN [err |-> TRUE, conversations |-> conversations, messages |-> table]
    ELSE [err |-> FALSE,
          conversations |-> InsertOrIgnore(conversations, id),
          messages |-> table \o MessageRows(id, messages)]

\* ConversationModel.Save: one transaction that inserts the conversation row
\* if it is missing, deletes the conversation's message rows and inserts one
\* row per message.  A failure of any statement, or of the commit, rolls the
\* transaction back.
Save(conversations, table, id, messages, failed) ==
    IF failed
    THEN [err |-> TRUE, conversations |-> conversations, messages |-> table]
    ELSE [err |-> FALSE,
          conversations |-> InsertOrIgnore(conversations, id),
          messages |-> RowsNotOf(table, id) \o MessageRows(id, messages)]

\* ORDER BY sequence_number ASC.
RECURSIVE OrderBySequence(_)
OrderBySequence(rows) ==
    IF rows = <<>>
    THEN <<>>
    ELSE LET m == CHOOSE i \in DOMAIN rows :
                    \A k \in DOMAIN rows :
                        \/ rows[i].sequence_number < rows[k].sequence_number
                        \/ /\ rows[i].sequence_number = rows[k].sequence_number
                           /\ i <= k
         IN <<rows[m]>> \o OrderBySequence(SubSeq(rows, 1, m - 1)
                                            \o SubSeq(rows, m + 1, Len(rows)))

\* ConversationModel.Get: ErrConversationNotFound when the conversations
\* table has no row for the id; otherwise the message rows of the id in
\* sequence order, each unmarshalled.
Get(conversations, table, id) ==
    IF ~\E i \in DOMAIN conversations : conversations[i].id = id
    THEN [err |-> "not found", messages |-> <<>>]
    ELSE LET rows == OrderBySequence(RowsOf(table, id))
         IN [err |-> "nil",
             messages |-> [i \in DOMAIN rows |->
                 DecodeMessage(rows[i].payload, rows[i].sequence_number)]]

\* ------------------------------------------------------------ tool registry
\* The orchestrator's ToolBox is a list searched front to back; finder is the
\* delegating tool, plan_write a plan-targeting tool, bash a plain one.
ToolBox ==
    << [Name |-> "read_file", IsSubTool |-> FALSE],
       [Name |-> "finder", IsSubTool |-> TRUE],
       [Name |-> "bash", IsSubTool |-> FALSE],
       [Name |-> "plan_write", IsSubTool |-> FALSE] >>

\* SubToolBox gone wrong: the subagent is given the delegating tool too.
SubToolBoxMutant ==
    << [Name |-> "read_file", IsSubTool |-> FALSE],
       [Name |-> "finder", IsSubTool |-> TRUE] >>

\* The subagent's smaller tool set (cmd.go:348-355): plain tools only.
SubToolBox == << [Name |-> "read_file", IsSubTool |-> FALSE] >>

\* Names registered by MCP servers (the keys of Agent.MCP.ToolMap).  One
\* server has registered a tool under the name of a registry tool.
MCPToolMap == {"mcp_echo", "read_file"}

\* The server a name of the tool map belongs to (ToolDetails.Server).
MCPServer(name) == IF name = "mcp_echo" THEN "server 1" ELSE "server 2"

PlanToolNames == {"plan_write", "plan_read"}

\* The names and raw inputs a model message can carry; "nope" is registered
\* nowhere, "bad" is a raw input that does not decode.
ToolNames == {"bash", "finder", "plan_write", "mcp_echo", "nope"}
\* The subagent's model can name any tool, those of the orchestrator included.
SubToolNames == {"read_file", "nope", "finder", "plan_write"}
\* The tools whose dispatch decodes the raw input itself and is called with
\* one that does not decode: the delegating tool (runSubagent) and the tool
\* routed to an MCP server (executeMCPTool).
DecodingTools == {"finder", "read_file"}

\* The lookup loop of executeLocalTool: index of the first tool with the name,
\* 0 when there is none.
RECURSIVE FindTool(_, _, _)
FindTool(box, name, i) ==
    IF i > Len(box) THEN 0
    ELSE IF box[i].Name = name THEN i
    ELSE FindTool(box, name, i + 1)

\* ------------------------------------------------------------------- plans
NilPlan == [id |-> "nil", steps |-> 0]
NewPlan == [id |-> "plan", steps |-> 0]

\* The plan_write tool function: adds a step to the injected plan when it
\* succeeds, leaves it alone when it fails.
PlanWriteFn(p, ok) ==
    IF ok /\ p.steps < MaxPlanSteps THEN [p EXCEPT !.steps = p.steps + 1] ELSE p

\* ----------------------------------------------------------- model messages
\* The shapes of a model message: 1..MaxBlocks blocks, an optional leading text
\* followed by ToolUse blocks (the order in which the adapters assemble a
\* response).
TextKind == [kind |-> "text", name |-> "", input |-> ""]

BlockKinds ==
    {[kind |-> "tool_use", name |-> n, input |-> "obj"] : n \in ToolNames} \cup
    {[kind |-> "tool_use", name |-> n, input |-> "bad"] : n \in DecodingTools}

SubBlockKinds ==
    {[kind |-> "tool_use", name |-> n, input |-> "obj"] : n \in SubToolNames}

Shapes(toolKinds) ==
    {s \in UNION {[1..n -> {TextKind} \cup toolKinds] : n \in 1..MaxBlocks} :
        \A i \in 2..Len(s) : s[i].kind = "tool_use"}

NumToolUse(shape, i) == Cardinality({j \in 1..i : shape[j].kind = "tool_use"})

\* The provider gives every ToolUse a fresh id: base, base+1, ...
ContentOf(shape, base) ==
    [i \in 1..Len(shape) |->
        IF shape[i].kind = "text"
        THEN NewTextBlock("answer")
        ELSE NewToolUseBlock(base + NumToolUse(shape, i) - 1, shape[i].name, shape[i].input)]

\* NextToolUse gone wrong: only an unbroken run of ToolUse blocks from the
\* start is seen, a ToolUse behind a text block is missed.
NextToolUseMutant(content, from) ==
    IF from > Len(content) THEN 0
    ELSE IF content[from].type = "tool_use" THEN from
    ELSE 0

\* Index of the first ToolUse block at or after from, 0 when there is none:
\* the range loop over agentMsg.Content with its type switch.
RECURSIVE NextToolUse(_, _)
NextToolUse(content, from) ==
    IF from > Len(content) THEN 0
    ELSE IF content[from].type = "tool_use" THEN from
    ELSE NextToolUse(content, from + 1)

\* ------------------------------------------------------------------- state
VARIABLES
    conv,         \* Agent.Conv.Messages
    native,       \* the adapter's native history (AnthropicClient.history)
    pc,           \* position inside Run: idle, user, infer, dispatch, sub, toolmsg, finish, crashed
    runs,         \* Run calls made so far
    retErr,       \* what the last finished Run returned: "none" before any, "nil", or the failing call
    calls,        \* the collaborator calls made by the latest step, in call order
    nextId,       \* next ToolUse id the provider hands out
    blockIdx,     \* index in agentMsg.Content of the ToolUse being dispatched
    toolResults,  \* the toolResults slice of Run
    tokenCount,   \* Agent.TokenCount
    agentPlan,    \* Agent.Plan
    storePlan,    \* the plan the store holds for the conversation
    published,    \* snapshots handed to a spawned Publish task, in spawn order
    subPc,        \* position inside Subagent.Run: off, infer, dispatch, toolmsg
    subMsg,       \* content of the subagent's latest model message
    subIdx,       \* index in subMsg of the ToolUse being dispatched
    subResults,   \* the subagent's tool results for subMsg
    subRounds,    \* tool-using messages the subagent's model has emitted in this delegation
    faults,       \* collaborator calls that have failed so far
    inferCalls,   \* RunInference calls made by the current Run
    storedTokenCount, \* token_count of the conversation's row in the store
    Updates,      \* Controller.Updates: the snapshots buffered in the channel
    blocked,      \* snapshots of the Publish calls waiting on the full channel
    spawned,      \* Publish calls made on the Controller so far
    received,     \* snapshots the subscriber's loop has taken from the channel
    rendered,     \* the snapshot the subscriber's loop passed to render last
    fn,           \* the latest call of a client helper: operation, arguments, results
    provider,     \* which adapter is the LLM client: "anthropic" or "gemini"
    nativeTools,  \* the adapter's native tool set (AnthropicClient.tools)
    dbConversations, \* the rows of the store's conversations table
    dbMessages,   \* the rows of the store's messages table
    inputText,    \* the text in the TUI's question input
    inputDisabled, \* whether the question input is disabled
    running,      \* streamContent tasks whose Run has not returned
    pending       \* indices in published of the spawned tasks that have not called Publish

vars == <<conv, native, pc, runs, retErr, calls, nextId, blockIdx, toolResults,
          tokenCount, agentPlan, storePlan, published,
          subPc, subMsg, subIdx, subResults, subRounds, faults, inferCalls,
          storedTokenCount, Updates, blocked, spawned, received, rendered, fn,
          provider, nativeTools, dbConversations, dbMessages,
          inputText, inputDisabled, running, pending>>

dbVars == <<dbConversations, dbMessages>>
tuiVars == <<inputText, inputDisabled, running, pending>>
subVars == <<subPc, subMsg, subIdx, subResults, subRounds>>
planVars == <<agentPlan, storePlan, published>>
ctlVars == <<Updates, blocked, spawned, received, rendered>>
\* The state of one Agent and its collaborators.
agentVars == <<conv, native, pc, runs, retErr, calls, nextId, blockIdx, toolResults,
               tokenCount, agentPlan, storePlan, published,
               subPc, subMsg, subIdx, subResults, subRounds, faults, inferCalls,
               storedTokenCount, provider, nativeTools, dbVars>>

\* A stored conversation of n messages from earlier tool-free turns.
PlainHistory(n) ==
    [i \in 1..n |->
        [role |-> IF i % 2 = 1 THEN UserRole ELSE AssistantRole,
         content |-> <<NewTextBlock("old")>>,
         sequence |-> i - 1]]

\* A stored conversation whose response was saved by a session that ran with
\* the Gemini adapter, which labels responses with ModelRole.
ForeignHistory ==
    << [role |-> UserRole, content |-> <<NewTextBlock("old")>>, sequence |-> 0],
       [role |-> ModelRole, content |-> <<NewTextBlock("old")>>, sequence |-> 1] >>

\* The snapshot the TUI renders before it subscribes (part_000:103-104), for a
\* new conversation without a plan.
InitialState == [Plan |-> NilPlan, TokenCount |-> 0]

\* No helper call has been made.
NoCall == [op |-> "none", arg |-> <<>>, threshold |-> 0, res |-> <<>>, res2 |-> <<>>]

InitConvs == {PlainHistory(0), PlainHistory(SummarizeThreshold), ForeignHistory}

Init ==
    /\ conv \in InitConvs
    /\ native = <<>>
    /\ pc = "idle"
    /\ runs = 0
    /\ retErr = "none"
    /\ calls = <<>>
    /\ nextId = 1
    /\ blockIdx = 0
    /\ toolResults = <<>>
    /\ tokenCount = 0
    /\ agentPlan = NilPlan
    /\ storePlan = NilPlan
    /\ published = <<>>
    /\ subPc = "off"
    /\ subMsg = <<>>
    /\ subIdx = 0
    /\ subResults = <<>>
    /\ subRounds = 0
    /\ faults = 0
    /\ inferCalls = 0
    /\ storedTokenCount = 0
    /\ Updates = <<>>
    /\ blocked = <<>>
    /\ spawned = 0
    /\ received = 0
    /\ rendered = InitialState
    /\ fn = NoCall
    /\ provider = "anthropic"
    /\ nativeTools = <<>>
    /\ dbConversations = <<[id |-> ConvID]>>
    /\ dbMessages = MessageRows(ConvID, conv)
    /\ inputText = ""
    /\ inputDisabled = FALSE
    /\ running = 0
    /\ pending = {}

AgentMsg == conv[Len(conv)]

\* A call record: the call, its result ("err" for a failed call), details.
Ev(call, result) == <<call, result>>

\* The failures of the calls of a step that are the collaborator's choice; a
\* ToNativeHistory failure follows from the conversation's content.
NumErr(events) ==
    Cardinality({i \in DOMAIN events :
                    events[i][2] = "err" /\ events[i][1] # "ToNativeHistory"})

\* At most MaxFaults collaborator calls fail in one behaviour.
Charge ==
    /\ faults + NumErr(calls') <= MaxFaults
    /\ faults' = faults + NumErr(calls')
ErrStr(isErr) == IF isErr THEN "err" ELSE "ok"

\* The context a call made during Run is given: Run's own ctx for
\* RunInference (97, 402) and CountTokens (123), a fresh context.Background()
\* for the MCP server's Call (234) and for the subagent's Run (374).
CallContext(call) ==
    IF call \in {"RunInference", "CountTokens"} THEN "ctx"
    ELSE IF call \in {"Call", "Subagent.Run"} THEN "background"
    ELSE "none"

\* The record of a call that takes a context: the call, its result and the
\* context it was given.
CtxEv(call, result) == <<call, result, CallContext(call)>>

\* Run returns e ("nil" for a nil error) to its caller.
Return(e) ==
    /\ pc' = "idle"
    /\ retErr' = e
    /\ blockIdx' = 0
    /\ toolResults' = <<>>

\* AppendIfTranslated gone wrong: a failed translation rolls the conversation
\* back by one message.
AppendIfTranslatedMutant(messages, msg, r) ==
    IF r.err
    THEN SubSeq(messages, 1, Len(messages) - 1)
    ELSE AppendMsg(messages, msg)

\* Run appends a message to the conversation only after the adapter has taken
\* it (89-94, 102-107, 141-146); a failed translation leaves the conversation
\* as it is.
AppendIfTranslated(messages, msg, r) ==
    IF r.err THEN messages ELSE AppendMsg(messages, msg)

\* --------------------------------------------------------------- Agent.Run
\* agent.go:70-80.  Compaction, then ToNativeHistory (skipped on an empty
\* conversation) and ToNativeTools; both results are dropped by Run.
RunStart ==
    /\ pc = "idle"
    /\ runs < MaxRuns
    /\ \E toolsErr \in BOOLEAN :
        LET compacted == BaseSummarizeHistory(conv, SummarizeThreshold)
            h == ToNativeHistory(native, compacted)
        IN /\ conv' = compacted
           /\ native' = IF Len(compacted) # 0 THEN h.history ELSE native
           /\ calls' = (IF Len(compacted) # 0
                      THEN <<Ev("ToNativeHistory", ErrStr(h.err))>> ELSE <<>>)
                     \o <<Ev("ToNativeTools", ErrStr(toolsErr))>>
    /\ runs' = runs + 1
    /\ inferCalls' = 0
    /\ pc' = "user"
    /\ retErr' = "none"
    /\ UNCHANGED <<nextId, blockIdx, toolResults, tokenCount, planVars, subVars>>
    /\ Charge
    /\ UNCHANGED <<storedTokenCount, ctlVars, fn, provider, nativeTools, tuiVars, dbVars>>

\* agent.go:83-95.  The first pass of the loop (readUserInput is true).
UserMsgStep ==
    /\ pc = "user"
    /\ \E fault \in BOOLEAN :
        LET userMsg == NewMessage(UserRole, <<NewTextBlock("input")>>)
            r == ToNativeMessage(native, userMsg, fault)
        IN /\ calls' = Append(<<>>, Ev("ToNativeMessage", ErrStr(r.err)))
           /\ native' = r.history
           /\ conv' = AppendIfTranslated(conv, userMsg, r)
           /\ IF r.err
              THEN Return("ToNativeMessage")
              ELSE /\ pc' = "infer"
                   /\ UNCHANGED <<retErr, blockIdx, toolResults>>
    /\ UNCHANGED <<runs, inferCalls, nextId, tokenCount, planVars, subVars>>
    /\ Charge
    /\ UNCHANGED <<storedTokenCount, ctlVars, fn, provider, nativeTools, tuiVars, dbVars>>

\* agent.go:97-107 and 393-412.  RunInference fails on an empty native history
\* or on a provider error; the returned message is translated and appended.
\* The for loop of 109-116 finds no ToolUse (finish) or a first one (dispatch).
InferStep ==
    /\ pc = "infer"
    /\ \/ /\ calls' = Append(<<>>, CtxEv("RunInference", "err"))
          /\ Return("RunInference")
          /\ UNCHANGED <<conv, native, nextId>>
       \/ /\ Len(native) # 0
          /\ \E shape \in Shapes(BlockKinds), fault \in BOOLEAN :
               LET n == NumToolUse(shape, Len(shape))
                   agentMsg == NewMessage(AssistantRole, ContentOf(shape, nextId))
                   r == ToNativeMessage(native, agentMsg, fault)
                   first == NextToolUse(agentMsg.content, 1)
               IN /\ nextId + n - 1 <= MaxToolUses
                  /\ nextId' = nextId + n
                  /\ calls' = <<CtxEv("RunInference", "ok"),
                                     Ev("ToNativeMessage", ErrStr(r.err))>>
                  /\ native' = r.history
                  /\ conv' = AppendIfTranslated(conv, agentMsg, r)
                  /\ IF r.err
                     THEN Return("ToNativeMessage")
                     ELSE /\ blockIdx' = first
                          /\ toolResults' = <<>>
                          /\ pc' = IF first = 0 THEN "finish" ELSE "dispatch"
                          /\ UNCHANGED retErr
    /\ inferCalls' = inferCalls + 1
    /\ UNCHANGED <<runs, tokenCount, planVars, subVars>>
    /\ Charge
    /\ UNCHANGED <<storedTokenCount, ctlVars, fn, provider, nativeTools, tuiVars, dbVars>>

\* ------------------------------------------------------------ tool dispatch
CurBlock == AgentMsg.content[blockIdx]

\* FormatToolResultMessage passed to onDelta at the end of executeTool: the
\* summary carries the tool name and the error flag of the result.
DeltaEv(result) ==
    <<"onDelta", IF result.is_error THEN "error" ELSE "success", result.tool_name>>

\* Collect gone wrong: the result is put in front of the earlier results.
CollectMutant(result, events) ==
    /\ toolResults' = <<result>> \o toolResults
    /\ calls' = events \o <<DeltaEv(result)>>
    /\ LET nxt == NextToolUse(AgentMsg.content, blockIdx + 1)
       IN /\ blockIdx' = nxt
          /\ pc' = IF nxt = 0 THEN "toolmsg" ELSE "dispatch"
    /\ UNCHANGED <<conv, native, runs, inferCalls, retErr, nextId, tokenCount>>

\* The end of executeTool (159-165) and of one pass of the loop 110-116: the
\* summary goes to onDelta, the result joins toolResults, the loop moves to the
\* next ToolUse block or leaves.
Collect(result, events) ==
    /\ toolResults' = Append(toolResults, result)
    /\ calls' = events \o <<DeltaEv(result)>>
    /\ LET nxt == NextToolUse(AgentMsg.content, blockIdx + 1)
       IN /\ blockIdx' = nxt
          /\ pc' = IF nxt = 0 THEN "toolmsg" ELSE "dispatch"
    /\ UNCHANGED <<conv, native, runs, inferCalls, retErr, nextId, tokenCount>>

\* A nil-pointer panic inside Run: nothing recovers it, the process ends.
Crash(events) ==
    /\ pc' = "crashed"
    /\ calls' = events \o <<Ev("panic", "nil message")>>
    /\ UNCHANGED <<conv, native, runs, inferCalls, retErr, nextId, tokenCount,
                   blockIdx, toolResults>>

\* MCPArgs gone wrong: the nil map left by a failed decoding is passed on.
MCPArgsMutant(input) == IF input = "obj" THEN "args" ELSE "nil map"

\* executeMCPTool decodes the raw input into an argument map, an empty map
\* when it does not decode.
MCPArgs(input) == IF input = "obj" THEN "args" ELSE "empty map"

\* executeMCPTool gone wrong: the check for an empty stringified result is
\* missing.
executeMCPToolMutant(id, name, callResult) ==
    IF callResult = "err"
    THEN NewToolResultBlock(id, name,
            <<"MCP tool ", name, " execution error: ", "call failed">>, TRUE)
    ELSE IF callResult = "nil"
    THEN NewToolResultBlock(id, name,
            <<"Tool executed successfully but returned no content">>, FALSE)
    ELSE IF callResult = "empty"
    THEN NewToolResultBlock(id, name, <<>>, FALSE)
    ELSE NewToolResultBlock(id, name, <<"mcp output">>, FALSE)

\* executeMCPTool: the four outcomes of Server.Call.
executeMCPTool(id, name, callResult) ==
    IF callResult = "err"
    THEN NewToolResultBlock(id, name,
            <<"MCP tool ", name, " execution error: ", "call failed">>, TRUE)
    ELSE IF callResult = "nil"
    THEN NewToolResultBlock(id, name,
            <<"Tool executed successfully but returned no content">>, FALSE)
    ELSE IF callResult = "empty"
    THEN NewToolResultBlock(id, name,
            <<"Tool executed successfully but returned empty content">>, FALSE)
    ELSE NewToolResultBlock(id, name, <<"mcp output">>, FALSE)

\* NotFoundResult gone wrong: the missing tool is not flagged as an error.
NotFoundResultMutant(id, name) ==
    NewToolResultBlock(id, name, <<"tool not found">>, FALSE)

\* executeLocalTool 268-271.
NotFoundResult(id, name) == NewToolResultBlock(id, name, <<"tool not found">>, TRUE)

\* executeLocalTool 314-319.
ToolResultOf(id, name, toolOutput, errText, failed) ==
    IF failed
    THEN NewToolResultBlock(id, name, errText, TRUE)
    ELSE NewToolResultBlock(id, name, toolOutput, FALSE)

\* What a tool function returns: its output, or an error with this text.
FnOutput(name) == <<"output of ", name>>
FnError == <<"tool execution failed">>

\* executePlanTool gone wrong: CreatePlan is called for a plan that exists.
executePlanToolAlwaysCreates(store, cached, getErr, createOk, fnOk, saveOk) ==
    LET fail(text, evs, st) ==
            [failed |-> TRUE, output |-> <<>>, errText |-> text, events |-> evs,
             store |-> st, cached |-> cached, publish |-> FALSE]
        proceed(p, st, evs) ==
            LET p2 == PlanWriteFn(p, fnOk)
                evs2 == evs \o <<<<"Fn", ErrStr(~fnOk), "plan_write">>,
                                 Ev("SavePlan", ErrStr(~saveOk))>>
            IN IF ~saveOk
               THEN fail(<<"plan_write: failed to save plan ", "err">>, evs2, st)
               ELSE [failed |-> FALSE,
                     output |-> IF fnOk THEN FnOutput("plan_write") ELSE <<>>,
                     errText |-> <<>>, events |-> evs2,
                     store |-> p2, cached |-> p2, publish |-> TRUE]
    IN IF getErr
       THEN fail(<<"plan_write: failed to get plan ", "err">>,
                 <<Ev("GetPlan", "err")>>, store)
       ELSE IF store = NilPlan
       THEN IF ~createOk
            THEN fail(<<"plan_write: failed to create new plan ", "err">>,
                      <<Ev("GetPlan", "not found"), Ev("CreatePlan", "err")>>, store)
            ELSE proceed(NewPlan, NewPlan,
                         <<Ev("GetPlan", "not found"), Ev("CreatePlan", "ok")>>)
       ELSE proceed(store, store, <<Ev("GetPlan", "ok"), Ev("CreatePlan", "ok")>>)

\* executePlanTool gone wrong: a failed tool function returns its error at
\* once and the plan is not saved.
executePlanToolSkipsSave(store, cached, getErr, createOk, fnOk, saveOk) ==
    LET fail(text, evs, st) ==
            [failed |-> TRUE, output |-> <<>>, errText |-> text, events |-> evs,
             store |-> st, cached |-> cached, publish |-> FALSE]
        proceed(p, st, evs) ==
            LET p2 == PlanWriteFn(p, fnOk)
                evs2 == evs \o <<<<"Fn", ErrStr(~fnOk), "plan_write">>,
                                 Ev("SavePlan", ErrStr(~saveOk))>>
            IN IF ~fnOk
               THEN [failed |-> TRUE, output |-> <<>>, errText |-> FnError,
                     events |-> evs \o <<<<"Fn", "err", "plan_write">>>>,
                     store |-> st, cached |-> cached, publish |-> FALSE]
               ELSE IF ~saveOk
               THEN fail(<<"plan_write: failed to save plan ", "err">>, evs2, st)
               ELSE [failed |-> FALSE,
                     output |-> IF fnOk THEN FnOutput("plan_write") ELSE <<>>,
                     errText |-> <<>>, events |-> evs2,
                     store |-> p2, cached |-> p2, publish |-> TRUE]
    IN IF getErr
       THEN fail(<<"plan_write: failed to get plan ", "err">>,
                 <<Ev("GetPlan", "err")>>, store)
       ELSE IF store = NilPlan
       THEN IF ~createOk
            THEN fail(<<"plan_write: failed to create new plan ", "err">>,
                      <<Ev("GetPlan", "not found"), Ev("CreatePlan", "err")>>, store)
            ELSE proceed(NewPlan, NewPlan,
                         <<Ev("GetPlan", "not found"), Ev("CreatePlan", "ok")>>)
       ELSE proceed(store, store, <<Ev("GetPlan", "ok")>>)

\* executePlanTool gone wrong: the cached plan is synchronized and the
\* snapshot is published before SavePlan, so both happen when the save fails.
executePlanToolSyncsBeforeSave(store, cached, getErr, createOk, fnOk, saveOk) ==
    LET fail(text, evs, st) ==
            [failed |-> TRUE, output |-> <<>>, errText |-> text, events |-> evs,
             store |-> st, cached |-> cached, publish |-> FALSE]
        proceed(p, st, evs) ==
            LET p2 == PlanWriteFn(p, fnOk)
                evs2 == evs \o <<<<"Fn", ErrStr(~fnOk), "plan_write">>,
                                 Ev("SavePlan", ErrStr(~saveOk))>>
            IN IF ~saveOk
               THEN [failed |-> TRUE, output |-> <<>>,
                     errText |-> <<"plan_write: failed to save plan ", "err">>,
                     events |-> evs2, store |-> st, cached |-> p2, publish |-> TRUE]
               ELSE [failed |-> FALSE,
                     output |-> IF fnOk THEN FnOutput("plan_write") ELSE <<>>,
                     errText |-> <<>>, events |-> evs2,
                     store |-> p2, cached |-> p2, publish |-> TRUE]
    IN IF getErr
       THEN fail(<<"plan_write: failed to get plan ", "err">>,
                 <<Ev("GetPlan", "err")>>, store)
       ELSE IF store = NilPlan
       THEN IF ~createOk
            THEN fail(<<"plan_write: failed to create new plan ", "err">>,
                      <<Ev("GetPlan", "not found"), Ev("CreatePlan", "err")>>, store)
            ELSE proceed(NewPlan, NewPlan,
                         <<Ev("GetPlan", "not found"), Ev("CreatePlan", "ok")>>)
       ELSE proceed(store, store, <<Ev("GetPlan", "ok")>>)

\* executePlanTool.  getErr: GetPlan failed with something other than not
\* found; a store without a plan answers not found.  The plan is saved whether
\* or not the function failed, and the function's error is overwritten by
\* SavePlan's (line 345): only the response survives.
executePlanTool(store, cached, getErr, createOk, fnOk, saveOk) ==
    LET fail(text, evs, st) ==
            [failed |-> TRUE, output |-> <<>>, errText |-> text, events |-> evs,
             store |-> st, cached |-> cached, publish |-> FALSE]
        proceed(p, st, evs) ==
            LET p2 == PlanWriteFn(p, fnOk)
                evs2 == evs \o <<<<"Fn", ErrStr(~fnOk), "plan_write">>,
                                 Ev("SavePlan", ErrStr(~saveOk))>>
            IN IF ~saveOk
               THEN fail(<<"plan_write: failed to save plan ", "err">>, evs2, st)
               ELSE [failed |-> FALSE,
                     output |-> IF fnOk THEN FnOutput("plan_write") ELSE <<>>,
                     errText |-> <<>>, events |-> evs2,
                     store |-> p2, cached |-> p2, publish |-> TRUE]
    IN IF getErr
       THEN fail(<<"plan_write: failed to get plan ", "err">>,
                 <<Ev("GetPlan", "err")>>, store)
       ELSE IF store = NilPlan
       THEN IF ~createOk
            THEN fail(<<"plan_write: failed to create new plan ", "err">>,
                      <<Ev("GetPlan", "not found"), Ev("CreatePlan", "err")>>, store)
            ELSE proceed(NewPlan, NewPlan,
                         <<Ev("GetPlan", "not found"), Ev("CreatePlan", "ok")>>)
       ELSE proceed(store, store, <<Ev("GetPlan", "ok")>>)

\* GoPublish gone wrong: Publish is called by Run itself, which goes on only
\* when the channel has taken the snapshot.
GoPublishInline(s) ==
    /\ Len(Updates) < ChanCapacity
    /\ published' = Append(published, s)

\* go func() { a.ctl.Publish(s) }() (agent.go:128-130, 353-355): the caller
\* hands the snapshot to a new task and goes on without waiting for it.
GoPublish(s) ==
    published' = Append(published, s)

\* executeTool 153-154: the name is in the MCP tool map.
DispatchMCP ==
    /\ pc = "dispatch"
    /\ CurBlock.name \in MCPToolMap
    /\ \E callResult \in {"err", "nil", "empty", "text"} :
        Collect(executeMCPTool(CurBlock.id, CurBlock.name, callResult),
                <<<<"Call", ErrStr(callResult = "err"), CurBlock.name,
                   MCPArgs(CurBlock.input), callResult, CallContext("Call"),
                   MCPServer(CurBlock.name)>>>>)
    /\ UNCHANGED <<planVars, subVars>>
    /\ Charge
    /\ UNCHANGED <<storedTokenCount, ctlVars, fn, provider, nativeTools, tuiVars, dbVars>>

\* executeLocalTool 260-271: no tool of that name.
DispatchNotFound ==
    /\ pc = "dispatch"
    /\ CurBlock.name \notin MCPToolMap
    /\ FindTool(ToolBox, CurBlock.name, 1) = 0
    /\ Collect(NotFoundResult(CurBlock.id, CurBlock.name), <<>>)
    /\ UNCHANGED <<planVars, subVars>>
    /\ Charge
    /\ UNCHANGED <<storedTokenCount, ctlVars, fn, provider, nativeTools, tuiVars, dbVars>>

\* executeLocalTool 295-319, default case: the registered function runs.
DispatchLocal ==
    /\ pc = "dispatch"
    /\ CurBlock.name \notin MCPToolMap
    /\ FindTool(ToolBox, CurBlock.name, 1) # 0
    /\ ~ToolBox[FindTool(ToolBox, CurBlock.name, 1)].IsSubTool
    /\ CurBlock.name \notin PlanToolNames
    /\ \E fnOk \in BOOLEAN :
        Collect(ToolResultOf(CurBlock.id, CurBlock.name,
                             FnOutput(CurBlock.name), FnError, ~fnOk),
                <<<<"Fn", ErrStr(~fnOk), CurBlock.name>>>>)
    /\ UNCHANGED <<planVars, subVars>>
    /\ Charge
    /\ UNCHANGED <<storedTokenCount, ctlVars, fn, provider, nativeTools, tuiVars, dbVars>>

\* executeLocalTool 303-306 with executePlanTool.
DispatchPlan ==
    /\ pc = "dispatch"
    /\ CurBlock.name \notin MCPToolMap
    /\ FindTool(ToolBox, CurBlock.name, 1) # 0
    /\ ~ToolBox[FindTool(ToolBox, CurBlock.name, 1)].IsSubTool
    /\ CurBlock.name \in PlanToolNames
    /\ \E getErr, createOk, fnOk, saveOk \in BOOLEAN :
        LET r == executePlanTool(storePlan, agentPlan, getErr, createOk, fnOk, saveOk)
        IN /\ Collect(ToolResultOf(CurBlock.id, CurBlock.name,
                                   r.output, r.errText, r.failed), r.events)
           /\ storePlan' = r.store
           /\ agentPlan' = r.cached
           /\ IF r.publish
              THEN GoPublish([Plan |-> r.cached, TokenCount |-> 0])
              ELSE UNCHANGED published
    /\ UNCHANGED subVars
    /\ Charge
    /\ UNCHANGED <<storedTokenCount, ctlVars, fn, provider, nativeTools, tuiVars, dbVars>>

\* ------------------------------------------------------- message truncation
MarkerLen == 21
TruncationMarker == [i \in 1..MarkerLen |-> "#"]

\* TruncateFrom gone wrong: the tail starts right behind the head, so nothing
\* of the content is dropped.
RECURSIVE TruncateFromMutant(_, _, _)
TruncateFromMutant(content, i, threshold) ==
    IF i > Len(content) THEN content
    ELSE IF content[i].type = "tool_result"
    THEN LET c == content[i].content
         IN IF Len(c) < threshold
            THEN content
            ELSE TruncateFromMutant(
                   [content EXCEPT ![i] =
                      NewToolResultBlock(content[i].tool_use_id, content[i].tool_name,
                          SubSeq(c, 1, threshold \div 2) \o TruncationMarker \o
                          SubSeq(c, (threshold \div 2) + 1, Len(c)),
                          content[i].is_error)],
                   i + 1, threshold)
    ELSE TruncateFromMutant(content, i + 1, threshold)

\* BaseLLMClient.BaseTruncateMessage over the blocks of a message: the loop
\* returns the message as it stands at the first ToolResult shorter than the
\* threshold.
RECURSIVE TruncateFrom(_, _, _)
TruncateFrom(content, i, threshold) ==
    IF i > Len(content) THEN content
    ELSE IF content[i].type = "tool_result"
    THEN LET c == content[i].content
         IN IF Len(c) < threshold
            THEN content
            ELSE TruncateFrom(
                   [content EXCEPT ![i] =
                      NewToolResultBlock(content[i].tool_use_id, content[i].tool_name,
                          SubSeq(c, 1, threshold \div 2) \o TruncationMarker \o
                          SubSeq(c, Len(c) - (threshold \div 2) + 1, Len(c)),
                          content[i].is_error)],
                   i + 1, threshold)
    ELSE TruncateFrom(content, i + 1, threshold)

BaseTruncateMessage(content, threshold) == TruncateFrom(content, 1, threshold)

\* executeLocalTool 283-294: the text of the Text blocks and the content of
\* the ToolResult blocks, concatenated in block order.
RECURSIVE FoldContent(_, _)
FoldContent(content, i) ==
    IF i > Len(content) THEN <<>>
    ELSE (IF content[i].type = "text" THEN <<content[i].text>>
          ELSE IF content[i].type = "tool_result" THEN content[i].content
          ELSE <<>>) \o FoldContent(content, i + 1)

\* ----------------------------------------------------- subagent delegation
\* A *message.Message as a function returns it: nil, or a message.
NilMessage == [isNil |-> TRUE, content |-> <<>>]
MessageOf(content) == [isNil |-> FALSE, content |-> content]

\* What a function returned, as a call record: message and error ("nil" for
\* a nil error, else the call that failed).
RetEv(call, r) == <<call, "returned", r.msg, r.err>>

\* SubagentRunReturn gone wrong: a failure returns the message at hand along
\* with the error.
SubagentRunReturnMutant(content, failed) ==
    [msg |-> MessageOf(content), err |-> failed]

\* The return statements of Subagent.Run: the final, tool-free message with a
\* nil error, or a nil message with the error of the call that failed.
SubagentRunReturn(content, failed) ==
    IF failed = "nil"
    THEN [msg |-> MessageOf(content), err |-> "nil"]
    ELSE [msg |-> NilMessage, err |-> failed]

\* runSubagent gone wrong: an input that does not decode is run as an empty
\* query.
runSubagentMutant(decodeOk, subRet) ==
    IF subRet.err # "nil"
    THEN [msg |-> NilMessage, err |-> subRet.err]
    ELSE [msg |-> subRet.msg, err |-> "nil"]

\* runSubagent 360-380.  subRet is what a.Sub.Run returns when it is called,
\* which it is only when the raw input decodes.
runSubagent(decodeOk, subRet) ==
    IF ~decodeOk
    THEN [msg |-> NilMessage, err |-> "Unmarshal"]
    ELSE IF subRet.err # "nil"
    THEN [msg |-> NilMessage, err |-> subRet.err]
    ELSE [msg |-> subRet.msg, err |-> "nil"]

\* executeLocalTool 275-294 and 314-319 once runSubagent has returned r:
\* TruncateMessage ranges over the content of the returned message before the
\* error is looked at, which panics on a nil message; otherwise an error gives
\* an error result and a message is truncated and folded into the output.
executeSubTool(r, events) ==
    LET evs == events \o <<RetEv("runSubagent", r)>>
    IN IF r.msg.isNil
       THEN Crash(evs)
       ELSE IF r.err # "nil"
       THEN Collect(ToolResultOf(CurBlock.id, CurBlock.name, <<>>, <<r.err>>, TRUE), evs)
       ELSE Collect(ToolResultOf(CurBlock.id, CurBlock.name,
                        FoldContent(BaseTruncateMessage(r.msg.content, TruncateThreshold), 1),
                        <<>>, FALSE), evs)

\* runSubagent 364-374 and the start of Subagent.Run: the synthetic user
\* message is translated.
DispatchSubStart ==
    /\ pc = "dispatch"
    /\ CurBlock.name \notin MCPToolMap
    /\ FindTool(ToolBox, CurBlock.name, 1) # 0
    /\ ToolBox[FindTool(ToolBox, CurBlock.name, 1)].IsSubTool
    /\ \/ /\ CurBlock.input = "bad"
          /\ executeSubTool(runSubagent(FALSE, SubagentRunReturn(<<>>, "nil")),
                            <<Ev("Unmarshal", "err")>>)
          /\ UNCHANGED <<planVars, subVars>>
       \/ /\ CurBlock.input # "bad"
          /\ \E fault \in BOOLEAN :
              IF fault
              THEN LET sr == SubagentRunReturn(<<>>, "Sub.ToNativeMessage")
                   IN /\ executeSubTool(runSubagent(TRUE, sr),
                            <<Ev("Unmarshal", "ok"), Ev("Sub.ToNativeMessage", "err"),
                              RetEv("Subagent.Run", sr)>>)
                      /\ UNCHANGED <<planVars, subVars>>
              ELSE /\ pc' = "sub"
                   /\ subPc' = "infer"
                   /\ subMsg' = <<>>
                   /\ subIdx' = 0
                   /\ subResults' = <<>>
                   /\ subRounds' = 0
                   /\ calls' = <<Ev("Unmarshal", "ok"), Ev("Sub.ToNativeMessage", "ok")>>
                   /\ UNCHANGED <<conv, native, runs, inferCalls, retErr, nextId, tokenCount,
                                  blockIdx, toolResults, planVars>>
    /\ Charge
    /\ UNCHANGED <<storedTokenCount, ctlVars, fn, provider, nativeTools, tuiVars, dbVars>>

\* The subagent's provider hands out its own ToolUse ids.
SubIdBase == MaxToolUses + 1

\* Subagent.Run, one pass of its loop up to the dispatch: inference, the
\* translation of the response, then either the final message returned to the
\* parent (which folds it into the ToolResult) or the first ToolUse.
SubInferStep ==
    /\ pc = "sub"
    /\ subPc = "infer"
    /\ \/ LET sr == SubagentRunReturn(<<>>, "Sub.RunInference")
          IN /\ executeSubTool(runSubagent(TRUE, sr),
                    <<Ev("Sub.RunInference", "err"), RetEv("Subagent.Run", sr)>>)
             /\ UNCHANGED <<planVars, subVars>>
       \/ \E shape \in Shapes(SubBlockKinds), fault \in BOOLEAN :
            LET content == ContentOf(shape, SubIdBase)
                first == NextToolUse(content, 1)
                evs == <<Ev("Sub.RunInference", "ok"),
                         Ev("Sub.ToNativeMessage", ErrStr(fault))>>
            IN /\ first # 0 => subRounds < MaxSubRounds
               /\ IF fault
                  THEN LET sr == SubagentRunReturn(content, "Sub.ToNativeMessage")
                       IN /\ executeSubTool(runSubagent(TRUE, sr),
                                 evs \o <<RetEv("Subagent.Run", sr)>>)
                          /\ UNCHANGED <<planVars, subVars>>
                  ELSE IF first = 0
                  THEN /\ LET sr == SubagentRunReturn(content, "nil")
                          IN executeSubTool(runSubagent(TRUE, sr),
                                 evs \o <<RetEv("Subagent.Run", sr)>>)
                       /\ subPc' = "off"
                       /\ subMsg' = <<>>
                       /\ subIdx' = 0
                       /\ subResults' = <<>>
                       /\ subRounds' = 0
                       /\ UNCHANGED planVars
                  ELSE /\ subPc' = "dispatch"
                       /\ subMsg' = content
                       /\ subIdx' = first
                       /\ subResults' = <<>>
                       /\ subRounds' = subRounds + 1
                       /\ calls' = evs
                       /\ UNCHANGED <<conv, native, pc, runs, inferCalls, retErr, nextId, tokenCount,
                                      blockIdx, toolResults, planVars>>
    /\ Charge
    /\ UNCHANGED <<storedTokenCount, ctlVars, fn, provider, nativeTools, tuiVars, dbVars>>

\* Subagent.executeTool: lookup in the subagent's tool set, then the function.
SubExecuteTool(id, name, fnOk) ==
    IF FindTool(SubToolBox, name, 1) = 0
    THEN NotFoundResult(id, name)
    ELSE ToolResultOf(id, name, FnOutput(name), FnError, ~fnOk)

SubDispatchStep ==
    /\ pc = "sub"
    /\ subPc = "dispatch"
    /\ \E fnOk \in BOOLEAN :
        LET blk == subMsg[subIdx]
            found == FindTool(SubToolBox, blk.name, 1) # 0
            nxt == NextToolUse(subMsg, subIdx + 1)
        IN /\ (~found) => fnOk
           /\ subResults' = Append(subResults, SubExecuteTool(blk.id, blk.name, fnOk))
           /\ calls' = (IF found THEN <<<<"Sub.Fn", ErrStr(~fnOk), blk.name>>>> ELSE <<>>)
           /\ subIdx' = nxt
           /\ subPc' = IF nxt = 0 THEN "toolmsg" ELSE "dispatch"
    /\ UNCHANGED <<conv, native, pc, runs, inferCalls, retErr, nextId, tokenCount,
                   blockIdx, toolResults, planVars, subMsg, subRounds>>
    /\ Charge
    /\ UNCHANGED <<storedTokenCount, ctlVars, fn, provider, nativeTools, tuiVars, dbVars>>

\* Subagent.Run: the tool results go back to the subagent's model as one user
\* message.
SubToolMsgStep ==
    /\ pc = "sub"
    /\ subPc = "toolmsg"
    /\ \E fault \in BOOLEAN :
        IF fault
        THEN LET sr == SubagentRunReturn(subMsg, "Sub.ToNativeMessage")
             IN /\ executeSubTool(runSubagent(TRUE, sr),
                       <<Ev("Sub.ToNativeMessage", "err"), RetEv("Subagent.Run", sr)>>)
                /\ UNCHANGED <<planVars, subVars>>
        ELSE /\ subPc' = "infer"
             /\ calls' = Append(<<>>, Ev("Sub.ToNativeMessage", "ok"))
             /\ UNCHANGED <<conv, native, pc, runs, inferCalls, retErr, nextId, tokenCount,
                            blockIdx, toolResults, planVars,
                            subMsg, subIdx, subResults, subRounds>>
    /\ Charge
    /\ UNCHANGED <<storedTokenCount, ctlVars, fn, provider, nativeTools, tuiVars, dbVars>>

\* ------------------------------------------------------- end of the loop
\* agent.go:134-146: the results become one user message.
ToolMsgStep ==
    /\ pc = "toolmsg"
    /\ \E fault \in BOOLEAN :
        LET toolResultMsg == NewMessage(UserRole, toolResults)
            r == ToNativeMessage(native, toolResultMsg, fault)
        IN /\ calls' = Append(<<>>, Ev("ToNativeMessage", ErrStr(r.err)))
           /\ native' = r.history
           /\ conv' = AppendIfTranslated(conv, toolResultMsg, r)
           /\ IF r.err
              THEN Return("ToNativeMessage")
              ELSE /\ pc' = "infer"
                   /\ blockIdx' = 0
                   /\ toolResults' = <<>>
                   /\ UNCHANGED retErr
    /\ UNCHANGED <<runs, inferCalls, nextId, tokenCount, planVars, subVars>>
    /\ Charge
    /\ UNCHANGED <<storedTokenCount, ctlVars, fn, provider, nativeTools, tuiVars, dbVars>>

\* saveConversation (382-391): a conversation with messages is sent to the
\* store, which saves it in one transaction; an empty one is not sent.
SaveConversation(saveOk) ==
    IF Len(conv) > 0
    THEN LET r == Save(dbConversations, dbMessages, ConvID, conv, ~saveOk)
         IN /\ dbConversations' = r.conversations
            /\ dbMessages' = r.messages
    ELSE UNCHANGED dbVars

\* FinishStep gone wrong: the tokens are counted before the conversation is
\* saved, and a failed count leaves the conversation unsaved.
FinishStepMutant ==
    /\ pc = "finish"
    /\ \E saveOk, countOk \in BOOLEAN :
        LET saveEv == IF Len(conv) > 0
                      THEN <<Ev("SaveConversation", ErrStr(~saveOk))>> ELSE <<>>
            count == CountTokens(native)
        IN IF ~countOk
           THEN /\ calls' = <<Ev("CountTokens", "err")>>
                /\ Return("CountTokens")
                /\ UNCHANGED <<tokenCount, published, dbVars>>
           ELSE /\ calls' = <<Ev("CountTokens", "ok")>> \o saveEv \o <<Ev("Publish", "tokens")>>
                /\ SaveConversation(saveOk)
                /\ tokenCount' = count
                /\ GoPublish([Plan |-> NilPlan, TokenCount |-> count])
                /\ Return("nil")
    /\ UNCHANGED <<conv, native, runs, inferCalls, nextId, agentPlan, storePlan, subVars>>
    /\ Charge
    /\ UNCHANGED <<storedTokenCount, ctlVars, fn, provider, nativeTools, tuiVars>>

\* agent.go:118-132 with saveConversation 382-391: the conversation is saved
\* (the result of saveConversation is dropped), tokens are counted, the count
\* is kept and handed to a spawned Publish.
FinishStep ==
    /\ pc = "finish"
    /\ \E saveOk, countOk \in BOOLEAN :
        LET saveEv == IF Len(conv) > 0
                      THEN <<Ev("SaveConversation", ErrStr(~saveOk))>> ELSE <<>>
            count == CountTokens(native)
        IN /\ SaveConversation(saveOk)
           /\ IF ~countOk
              THEN /\ calls' = saveEv \o <<Ev("CountTokens", "err")>>
                   /\ Return("CountTokens")
                   /\ UNCHANGED <<tokenCount, published>>
              ELSE /\ calls' = saveEv \o <<Ev("CountTokens", "ok"), Ev("Publish", "tokens")>>
                   /\ tokenCount' = count
                   /\ GoPublish([Plan |-> NilPlan, TokenCount |-> count])
                   /\ Return("nil")
    /\ UNCHANGED <<conv, native, runs, inferCalls, nextId, agentPlan, storePlan, subVars>>
    /\ Charge
    /\ UNCHANGED <<storedTokenCount, ctlVars, fn, provider, nativeTools, tuiVars>>

Next ==
    \/ RunStart
    \/ UserMsgStep
    \/ InferStep
    \/ DispatchMCP
    \/ DispatchNotFound
    \/ DispatchLocal
    \/ DispatchPlan
    \/ DispatchSubStart
    \/ SubInferStep
    \/ SubDispatchStep
    \/ SubToolMsgStep
    \/ ToolMsgStep
    \/ FinishStep

Spec == Init /\ [][Next]_vars

\* ------------------------------------------------- client helpers on their own
\* SummarizeHistory and TruncateMessage called directly, on histories and
\* messages drawn from bounded sets.
HistLens == (0..MaxHist) \cup {SummarizeThreshold + 5}
Thresholds == (0..MaxThreshold) \cup {SummarizeThreshold}

\* A string of n characters, each different from the others.
Chars == <<"a", "b", "c", "d", "e", "f", "g", "h", "i", "j", "k", "l">>
ProbeText(n) == [i \in 1..n |-> Chars[i]]

ProbeBlocks ==
    {NewTextBlock("t"), NewToolUseBlock(1, "bash", "obj")} \cup
    {NewToolResultBlock(1, "bash", ProbeText(n), e) :
        n \in 0..MaxContentLen, e \in BOOLEAN}

ProbeMessages == UNION {[1..n -> ProbeBlocks] : n \in 0..MaxProbeBlocks}

InitFn ==
    /\ Init
    /\ conv = <<>>

SummarizeCall ==
    /\ fn.op = "none"
    /\ \E n \in HistLens, t \in Thresholds :
        fn' = [op |-> "summarize", arg |-> PlainHistory(n), threshold |-> t,
               res |-> BaseSummarizeHistory(PlainHistory(n), t), res2 |-> <<>>]
    /\ UNCHANGED <<agentVars, tuiVars, ctlVars>>

TruncateCall ==
    /\ fn.op = "none"
    /\ \E content \in ProbeMessages, t \in 0..MaxThreshold :
        fn' = [op |-> "truncate", arg |-> content, threshold |-> t,
               res |-> BaseTruncateMessage(content, t), res2 |-> <<>>]
    /\ UNCHANGED <<agentVars, tuiVars, ctlVars>>

\* The returned message is truncated once more with the same threshold.
TruncateAgain ==
    /\ fn.op = "truncate"
    /\ fn' = [fn EXCEPT !.op = "truncate2",
                        !.res2 = BaseTruncateMessage(fn.res, fn.threshold)]
    /\ UNCHANGED <<agentVars, tuiVars, ctlVars>>

\* The conversation n earlier turns of k tool rounds each have left: per turn
\* the user text, k pairs of a tool-using model message and the user message
\* with its result (agent.go:107, 146), and the tool-free answer.
TurnHistory(n, k) ==
    [i \in 1..(n * (2 * k + 2)) |->
        LET p == (i - 1) % (2 * k + 2)
            t == (i - 1) \div (2 * k + 2)
        IN IF p = 0
           THEN [role |-> UserRole, content |-> <<NewTextBlock("input")>>,
                 sequence |-> i - 1]
           ELSE IF p = 2 * k + 1
           THEN [role |-> AssistantRole, content |-> <<NewTextBlock("answer")>>,
                 sequence |-> i - 1]
           ELSE IF p % 2 = 1
           THEN [role |-> AssistantRole,
                 content |-> <<NewToolUseBlock(t * k + (p + 1) \div 2, "bash", "obj")>>,
                 sequence |-> i - 1]
           ELSE [role |-> UserRole,
                 content |-> <<NewToolResultBlock(t * k + p \div 2, "bash",
                                                  FnOutput("bash"), FALSE)>>,
                 sequence |-> i - 1]]

TurnHistories == {TurnHistory(n, k) : n \in 1..MaxTurns, k \in 0..MaxTurnRounds}

\* The compaction at the start of Run (agent.go:74) on a conversation left by
\* earlier turns.
SummarizeTurns ==
    /\ fn.op = "none"
    /\ \E h \in TurnHistories :
        fn' = [op |-> "compact", arg |-> h, threshold |-> SummarizeThreshold,
               res |-> BaseSummarizeHistory(h, SummarizeThreshold), res2 |-> <<>>]
    /\ UNCHANGED <<agentVars, tuiVars, ctlVars>>

NextFn ==
    \/ SummarizeCall
    \/ TruncateCall
    \/ TruncateAgain
    \/ SummarizeTurns

SpecFn == InitFn /\ [][NextFn]_vars

\* ----------------------------------------------------------- ui.Controller
\* The snapshots the orchestrator publishes: &ui.State{TokenCount: count} at
\* the end of a turn, &ui.State{Plan: p} after a plan tool.  The n-th Publish
\* call carries n as its count.
Snapshot(n, withPlan) ==
    IF withPlan
    THEN [Plan |-> NewPlan, TokenCount |-> 0]
    ELSE [Plan |-> NilPlan, TokenCount |-> n]

\* ChanSend gone wrong: a send on a full channel drops the oldest snapshot.
ChanSendMutant(buffer, s) ==
    IF Len(buffer) < ChanCapacity
    THEN [done |-> TRUE, buffer |-> Append(buffer, s)]
    ELSE [done |-> TRUE, buffer |-> Append(Tail(buffer), s)]

\* c.Updates <- s on the channel made with capacity 10: the send completes
\* when the buffer has room and waits otherwise.
ChanSend(buffer, s) ==
    IF Len(buffer) < ChanCapacity
    THEN [done |-> TRUE, buffer |-> Append(buffer, s)]
    ELSE [done |-> FALSE, buffer |-> buffer]

InitCtl ==
    /\ Init
    /\ conv = <<>>

\* Controller.Publish called by a spawned task.
CtlPublish ==
    /\ spawned < MaxPublish
    /\ \E withPlan \in BOOLEAN :
        LET s == Snapshot(spawned + 1, withPlan)
            r == ChanSend(Updates, s)
        IN /\ Updates' = r.buffer
           /\ blocked' = IF r.done THEN blocked ELSE Append(blocked, s)
    /\ spawned' = spawned + 1
    /\ UNCHANGED <<agentVars, tuiVars, received, rendered, fn>>

\* A waiting Publish goes through once the buffer has room; which of the
\* waiting tasks runs is the scheduler's choice.
CtlResume ==
    /\ \E i \in DOMAIN blocked :
        LET r == ChanSend(Updates, blocked[i])
        IN /\ r.done
           /\ Updates' = r.buffer
           /\ blocked' = SubSeq(blocked, 1, i - 1) \o SubSeq(blocked, i + 1, Len(blocked))
    /\ UNCHANGED <<agentVars, tuiVars, spawned, received, rendered, fn>>

\* ChanRecv gone wrong: the receiver reads the oldest snapshot and leaves it
\* in the buffer.
ChanRecvMutant(buffer) ==
    [value |-> Head(buffer), buffer |-> buffer]

\* A receive from the channel (range updateCh): the oldest buffered snapshot
\* leaves the buffer.
ChanRecv(buffer) ==
    [value |-> Head(buffer), buffer |-> Tail(buffer)]

\* The subscriber's range loop over Subscribe() takes the oldest snapshot and
\* renders it.
CtlReceive ==
    /\ Updates # <<>>
    /\ LET r == ChanRecv(Updates)
       IN /\ Updates' = r.buffer
          /\ rendered' = r.value
    /\ received' = received + 1
    /\ UNCHANGED <<agentVars, tuiVars, blocked, spawned, fn>>

NextCtl ==
    \/ CtlPublish
    \/ CtlResume
    \/ CtlReceive

SpecCtl == InitCtl /\ [][NextCtl]_vars

\* The subscriber's loop keeps receiving (part_000:109), and a Publish that
\* waits on the channel goes on once the channel has room.
SpecCtlLive == SpecCtl /\ WF_vars(CtlReceive) /\ WF_vars(CtlResume)

\* ------------------------------------- the Agent with nobody subscribed
\* The channel is full from the start and no task ever receives from it.
FullChannel == [i \in 1..ChanCapacity |-> Snapshot(i, FALSE)]

InitNoSub ==
    /\ conv = <<>>
    /\ native = <<>>
    /\ pc = "idle"
    /\ runs = 0
    /\ retErr = "none"
    /\ calls = <<>>
    /\ nextId = 1
    /\ blockIdx = 0
    /\ toolResults = <<>>
    /\ tokenCount = 0
    /\ agentPlan = NilPlan
    /\ storePlan = NilPlan
    /\ published = <<>>
    /\ subPc = "off"
    /\ subMsg = <<>>
    /\ subIdx = 0
    /\ subResults = <<>>
    /\ subRounds = 0
    /\ faults = 0
    /\ inferCalls = 0
    /\ storedTokenCount = 0
    /\ Updates = FullChannel
    /\ blocked = <<>>
    /\ spawned = 0
    /\ received = 0
    /\ rendered = InitialState
    /\ fn = NoCall
    /\ provider = "anthropic"
    /\ nativeTools = <<>>
    /\ dbConversations = <<[id |-> ConvID]>>
    /\ dbMessages = MessageRows(ConvID, conv)
    /\ inputText = ""
    /\ inputDisabled = FALSE
    /\ running = 0
    /\ pending = {}

\* One of the tasks spawned by Run or by executePlanTool runs its Publish.
\* The tasks are taken in spawn order: with a full channel and nobody
\* receiving, each of them waits, whichever runs first.
PublishTask ==
    /\ spawned < Len(published)
    /\ LET s == published[spawned + 1]
           r == ChanSend(Updates, s)
       IN /\ Updates' = r.buffer
          /\ blocked' = IF r.done THEN blocked ELSE Append(blocked, s)
    /\ spawned' = spawned + 1
    /\ UNCHANGED <<agentVars, tuiVars, received, rendered, fn>>

NextNoSub ==
    \/ Next
    \/ PublishTask

SpecNoSub == InitNoSub /\ [][NextNoSub]_vars

\* ------------------------------------------------ the two provider adapters
\* AnthropicClient and GeminiClient called directly, on messages, tool lists
\* and provider outcomes drawn from small sets.
Providers == {"anthropic", "gemini"}

\* A *message.Message passed to or returned by an adapter: nil, or a message
\* with its role and content.
NilGeneric == [isNil |-> TRUE, role |-> "", content |-> <<>>]
GenericMessage(role, content) == [isNil |-> FALSE, role |-> role, content |-> content]

\* The roles the message package defines; "system" is a role it does not have.
RecognizedRoles == {UserRole, AssistantRole, ModelRole}
AdRoles == RecognizedRoles \cup {"system"}

AdContents ==
    { <<>>,
      <<NewTextBlock("")>>,
      <<NewTextBlock("hi")>>,
      <<NewToolUseBlock(1, "bash", "bad")>>,
      <<NewToolResultBlock(1, "bash", <<"out">>, FALSE)>> }

AdMessages ==
    {NilGeneric} \cup {GenericMessage(r, c) : r \in AdRoles, c \in AdContents}

\* toParts (part_001:306-342): a text block with an empty text and a ToolUse
\* whose input does not decode give no part.
IsPart(b) ==
    /\ ~(b.type = "text" /\ b.text = "")
    /\ ~(b.type = "tool_use" /\ b.input = "bad")
toParts(blocks) == SelectSeq(blocks, IsPart)

\* AnthropicClient.ToNativeMessage (anthropic.go:233-251).
AnthropicToNativeMessage(history, msg) ==
    IF msg.isNil
    THEN [err |-> "anthropic: message is nil", history |-> history]
    ELSE IF msg.role \notin {UserRole, AssistantRole}
    THEN [err |-> "anthropic: invalid message role", history |-> history]
    ELSE [err |-> "nil", history |-> Append(history, NativeOf(msg))]

\* GeminiClient.ToNativeMessage (part_001:265-282): the role is copied into
\* the native content as it is.
GeminiToNativeMessage(history, msg) ==
    IF msg.isNil
    THEN [err |-> "gemini: message is nil", history |-> history]
    ELSE IF Len(toParts(msg.content)) = 0
    THEN [err |-> "gemini: message has no content parts", history |-> history]
    ELSE [err |-> "nil",
          history |-> Append(history, [role |-> msg.role,
                                       content |-> toParts(msg.content)])]

\* The tool lists handed to ToNativeTools.
AdToolLists == {<<>>, <<"bash">>, <<"bash", "finder">>}

\* AnthropicClient.ToNativeTools (anthropic.go:253-270).  failAt is the index
\* of the tool whose schema does not convert, 0 when all convert: the tool set
\* has been reset by then and holds the tools converted before it.
AnthropicToNativeTools(tools, defs, failAt) ==
    IF Len(defs) = 0
    THEN [err |-> "nil", tools |-> tools]
    ELSE IF failAt \in 1..Len(defs)
    THEN [err |-> "schema", tools |-> SubSeq(defs, 1, failAt - 1)]
    ELSE [err |-> "nil", tools |-> defs]

\* GeminiClient.ToNativeTools (part_001:284-304): the tool set is assigned
\* after every declaration has been built.
GeminiToNativeTools(tools, defs, failAt) ==
    IF Len(defs) = 0
    THEN [err |-> "gemini: no tools provided", tools |-> tools]
    ELSE IF failAt \in 1..Len(defs)
    THEN [err |-> "schema", tools |-> tools]
    ELSE [err |-> "nil", tools |-> defs]

\* What the provider sends back, in the order it sends it.
AdResponses ==
    { <<>>,
      <<NewTextBlock("hi")>>,
      <<NewToolUseBlock(1, "bash", "obj")>>,
      <<NewTextBlock("hi"), NewToolUseBlock(1, "bash", "obj")>> }

\* How the provider call ends: it completes, it fails (a failed request, or a
\* stream that ends with an error after sending part of the response), or it
\* completes without a candidate.
AdOutcomes == {"ok", "failed", "no content"}

IsText(b) == b.type = "text"
IsToolUseBlock(b) == b.type = "tool_use"

\* AnthropicClient.RunInference with runInferenceStream and
\* runInferenceSnapshot (anthropic.go:81-193).  content is what the provider
\* has sent when the call ends.  A stream that ends with an error has its
\* accumulated message converted and returned with the nil error of the
\* conversion (147-161).
AnthropicRunInference(history, streaming, outcome, content) ==
    IF Len(history) = 0
    THEN [msg |-> NilGeneric, err |-> "anthropic: no messages in conversation history"]
    ELSE IF streaming
    THEN [msg |-> GenericMessage(AssistantRole, content), err |-> "nil"]
    ELSE IF outcome = "failed"
    THEN [msg |-> NilGeneric, err |-> "anthropic snapshot call failed"]
    ELSE [msg |-> GenericMessage(AssistantRole, content), err |-> "nil"]

\* GeminiClient.RunInference with runInferenceStream and runInferenceSnapshot
\* (part_001:64-240).  The stream puts the function calls before the
\* collected text and fails on a response without blocks; the snapshot puts
\* the text first.
GeminiRunInference(history, streaming, outcome, content) ==
    IF Len(history) = 0
    THEN [msg |-> NilGeneric, err |-> "gemini: no messages in conversation history"]
    ELSE IF outcome = "failed"
    THEN [msg |-> NilGeneric, err |-> "call failed"]
    ELSE IF outcome = "no content"
    THEN [msg |-> NilGeneric, err |-> "no content returned"]
    ELSE IF streaming
    THEN IF Len(content) = 0
         THEN [msg |-> NilGeneric, err |-> "gemini: model returned no usable content"]
         ELSE [msg |-> GenericMessage(ModelRole,
                          SelectSeq(content, IsToolUseBlock) \o SelectSeq(content, IsText)),
               err |-> "nil"]
    ELSE [msg |-> GenericMessage(ModelRole,
                     SelectSeq(content, IsText) \o SelectSeq(content, IsToolUseBlock)),
          err |-> "nil"]

\* What the adapter specification leaves alone.
adFrame == <<conv, pc, runs, retErr, calls, nextId, blockIdx, toolResults,
             tokenCount, planVars, subVars, faults, inferCalls,
             storedTokenCount, ctlVars, provider, tuiVars, dbVars>>

InitAd ==
    /\ conv = <<>>
    /\ native = <<>>
    /\ pc = "idle"
    /\ runs = 0
    /\ retErr = "none"
    /\ calls = <<>>
    /\ nextId = 1
    /\ blockIdx = 0
    /\ toolResults = <<>>
    /\ tokenCount = 0
    /\ agentPlan = NilPlan
    /\ storePlan = NilPlan
    /\ published = <<>>
    /\ subPc = "off"
    /\ subMsg = <<>>
    /\ subIdx = 0
    /\ subResults = <<>>
    /\ subRounds = 0
    /\ faults = 0
    /\ inferCalls = 0
    /\ storedTokenCount = 0
    /\ Updates = <<>>
    /\ blocked = <<>>
    /\ spawned = 0
    /\ received = 0
    /\ rendered = InitialState
    /\ fn = NoCall
    /\ provider \in Providers
    /\ nativeTools = <<>>
    /\ dbConversations = <<[id |-> ConvID]>>
    /\ dbMessages = <<>>
    /\ inputText = ""
    /\ inputDisabled = FALSE
    /\ running = 0
    /\ pending = {}

AdToNativeMessage ==
    /\ Len(native) < MaxNative
    /\ \E msg \in AdMessages :
        LET r == IF provider = "anthropic"
                 THEN AnthropicToNativeMessage(native, msg)
                 ELSE GeminiToNativeMessage(native, msg)
        IN /\ native' = r.history
           /\ fn' = [op |-> "ToNativeMessage", arg |-> msg, threshold |-> 0,
                     res |-> r.err, res2 |-> <<>>]
    /\ UNCHANGED <<adFrame, nativeTools>>

AdToNativeTools ==
    /\ \E defs \in AdToolLists, failAt \in 0..2 :
        LET r == IF provider = "anthropic"
                 THEN AnthropicToNativeTools(nativeTools, defs, failAt)
                 ELSE GeminiToNativeTools(nativeTools, defs, failAt)
        IN /\ failAt <= Len(defs)
           /\ nativeTools' = r.tools
           /\ fn' = [op |-> "ToNativeTools", arg |-> defs, threshold |-> 0,
                     res |-> r.err, res2 |-> <<>>]
    /\ UNCHANGED <<adFrame, native>>

AdRunInference ==
    /\ \E streaming \in BOOLEAN, outcome \in AdOutcomes, content \in AdResponses :
        LET r == IF provider = "anthropic"
                 THEN AnthropicRunInference(native, streaming, outcome, content)
                 ELSE GeminiRunInference(native, streaming, outcome, content)
        IN /\ provider = "anthropic" => outcome # "no content"
           /\ fn' = [op |-> "RunInference",
                     arg |-> [streaming |-> streaming, outcome |-> outcome,
                              emptyHistory |-> Len(native) = 0],
                     threshold |-> 0, res |-> r, res2 |-> <<>>]
    /\ UNCHANGED <<adFrame, native, nativeTools>>

NextAd ==
    \/ AdToNativeMessage
    \/ AdToNativeTools
    \/ AdRunInference

SpecAd == InitAd /\ [][NextAd]_vars

\* --------------------------------------------- the store called directly
\* ConversationModel.Save and Get called on a store that starts empty, for
\* two conversation ids and conversations of up to MaxStored messages.  The
\* Sequence fields are those a conversation carries after a compaction, which
\* are not the positions.
StoreIds == {"c1", "c2"}

StoreMessages ==
    { [role |-> UserRole, content |-> <<NewTextBlock("q")>>, sequence |-> 0],
      [role |-> AssistantRole,
       content |-> <<NewTextBlock("a"), NewToolUseBlock(1, "bash", "obj")>>,
       sequence |-> 7],
      [role |-> UserRole,
       content |-> <<NewToolResultBlock(1, "bash", FnError, TRUE)>>, sequence |-> 8] }

StoreConvs == UNION {[1..n -> StoreMessages] : n \in 0..MaxStored}

\* What the store specification leaves alone.
storeFrame == <<conv, native, pc, runs, retErr, calls, nextId, blockIdx,
                toolResults, tokenCount, planVars, subVars, faults, inferCalls,
                storedTokenCount, ctlVars, provider, nativeTools, tuiVars>>

InitStore ==
    /\ conv = <<>>
    /\ native = <<>>
    /\ pc = "idle"
    /\ runs = 0
    /\ retErr = "none"
    /\ calls = <<>>
    /\ nextId = 1
    /\ blockIdx = 0
    /\ toolResults = <<>>
    /\ tokenCount = 0
    /\ agentPlan = NilPlan
    /\ storePlan = NilPlan
    /\ published = <<>>
    /\ subPc = "off"
    /\ subMsg = <<>>
    /\ subIdx = 0
    /\ subResults = <<>>
    /\ subRounds = 0
    /\ faults = 0
    /\ inferCalls = 0
    /\ storedTokenCount = 0
    /\ Updates = <<>>
    /\ blocked = <<>>
    /\ spawned = 0
    /\ received = 0
    /\ rendered = InitialState
    /\ fn = NoCall
    /\ provider = "anthropic"
    /\ nativeTools = <<>>
    /\ dbConversations = <<>>
    /\ dbMessages = <<>>
    /\ inputText = ""
    /\ inputDisabled = FALSE
    /\ running = 0
    /\ pending = {}

StoreSave ==
    /\ \E id \in StoreIds, messages \in StoreConvs, failed \in BOOLEAN :
        LET r == Save(dbConversations, dbMessages, id, messages, failed)
        IN /\ dbConversations' = r.conversations
           /\ dbMessages' = r.messages
           /\ fn' = [op |-> "Save", arg |-> [id |-> id, messages |-> messages],
                     threshold |-> 0, res |-> r.err, res2 |-> <<>>]
    /\ UNCHANGED storeFrame

StoreGet ==
    /\ \E id \in StoreIds :
        fn' = [op |-> "Get", arg |-> [id |-> id, messages |-> <<>>],
               threshold |-> 0,
               res |-> Get(dbConversations, dbMessages, id), res2 |-> <<>>]
    /\ UNCHANGED <<storeFrame, dbVars>>

NextStore ==
    \/ StoreSave
    \/ StoreGet

SpecStore == InitStore /\ [][NextStore]_vars

\* ------------------------------------------------------------------ the TUI
\* The question input, the Run tasks started from it, the Publish tasks they
\* spawn and the subscriber's loop.  A Run is seen from the TUI: its plan-tool
\* calls, which publish a plan, and its return, which publishes a token count
\* when it is nil.  Fewer than ChanCapacity snapshots are published, so no
\* Publish finds the channel full.

\* The texts of the question input: empty, blank, a question.
InputTexts == {"", " ", "question"}
\* strings.TrimSpace(content) == ""
IsBlank(text) == text \in {"", " "}

\* EnterKey gone wrong: the input is disabled but keeps its text.
EnterKeyMutant(text, disabled) ==
    IF IsBlank(text)
    THEN [text |-> text, disabled |-> disabled, start |-> FALSE]
    ELSE [text |-> text, disabled |-> TRUE, start |-> TRUE]

\* The Enter case of the input capture (part_000:126-140): a blank text is
\* ignored; otherwise the text is cleared, the input disabled and
\* streamContent started.
EnterKey(text, disabled) ==
    IF IsBlank(text)
    THEN [text |-> text, disabled |-> disabled, start |-> FALSE]
    ELSE [text |-> "", disabled |-> TRUE, start |-> TRUE]

\* What render puts on the screen for a snapshot (part_000:85-101): the plan
\* view when the snapshot has a plan with steps, the token count in the title.
Shown(s) ==
    [plan |-> IF s.Plan = NilPlan \/ s.Plan.steps = 0 THEN NilPlan ELSE s.Plan,
     title |-> s.TokenCount]

\* go func() { a.ctl.Publish(s) }() together with the task it creates.
GoSpawn(s) ==
    /\ GoPublish(s)
    /\ pending' = pending \cup {Len(published) + 1}

\* What the TUI specification leaves alone.
tuiFrame == <<conv, native, pc, runs, retErr, calls, nextId, blockIdx,
              toolResults, subVars, faults, inferCalls, storedTokenCount, fn,
              provider, nativeTools, dbVars>>

InitTui ==
    /\ conv = <<>>
    /\ native = <<>>
    /\ pc = "idle"
    /\ runs = 0
    /\ retErr = "none"
    /\ calls = <<>>
    /\ nextId = 1
    /\ blockIdx = 0
    /\ toolResults = <<>>
    /\ tokenCount = 0
    /\ agentPlan = NilPlan
    /\ storePlan = NilPlan
    /\ published = <<>>
    /\ subPc = "off"
    /\ subMsg = <<>>
    /\ subIdx = 0
    /\ subResults = <<>>
    /\ subRounds = 0
    /\ faults = 0
    /\ inferCalls = 0
    /\ storedTokenCount = 0
    /\ Updates = <<>>
    /\ blocked = <<>>
    /\ spawned = 0
    /\ received = 0
    /\ rendered = InitialState
    /\ fn = NoCall
    /\ provider = "anthropic"
    /\ nativeTools = <<>>
    /\ dbConversations = <<[id |-> ConvID]>>
    /\ dbMessages = <<>>
    /\ inputText = ""
    /\ inputDisabled = FALSE
    /\ running = 0
    /\ pending = {}

\* A key typed into the question input: the text area takes it unless it is
\* disabled.
TuiType ==
    /\ ~inputDisabled
    /\ \E text \in InputTexts : inputText' = text
    /\ UNCHANGED <<inputDisabled, running, pending>>
    /\ UNCHANGED <<tuiFrame, planVars, tokenCount, ctlVars>>

\* The Enter key in the question input.  The capture runs whether or not the
\* input is disabled.
TuiEnter ==
    /\ LET r == EnterKey(inputText, inputDisabled)
       IN /\ r.start
          /\ inputText' = r.text
          /\ inputDisabled' = r.disabled
          /\ running' = running + 1
    /\ UNCHANGED pending
    /\ UNCHANGED <<tuiFrame, planVars, tokenCount, ctlVars>>

\* A plan-tool call of a running Run (executePlanTool).
TuiPlanTool ==
    /\ running > 0
    /\ Len(published) < MaxSnapshots
    /\ \E getErr, createOk, fnOk, saveOk \in BOOLEAN :
        LET r == executePlanTool(storePlan, agentPlan, getErr, createOk, fnOk, saveOk)
        IN /\ storePlan' = r.store
           /\ agentPlan' = r.cached
           /\ IF r.publish
              THEN GoSpawn([Plan |-> r.cached, TokenCount |-> 0])
              ELSE UNCHANGED <<published, pending>>
    /\ UNCHANGED <<inputText, inputDisabled, running>>
    /\ UNCHANGED <<tuiFrame, tokenCount, ctlVars>>

\* A Run returns (agent.go:118-132 when it returns nil) and the deferred
\* function of streamContent enables the input again (part_000:331-335).
TuiRunReturn ==
    /\ running > 0
    /\ \/ /\ Len(published) < MaxSnapshots
          /\ \E count \in 1..MaxTokenCount :
                /\ tokenCount' = count
                /\ GoSpawn([Plan |-> NilPlan, TokenCount |-> count])
       \/ UNCHANGED <<tokenCount, published, pending>>
    /\ running' = running - 1
    /\ inputDisabled' = FALSE
    /\ UNCHANGED <<inputText, agentPlan, storePlan>>
    /\ UNCHANGED <<tuiFrame, ctlVars>>

\* One of the spawned tasks calls Publish; which one runs next is the
\* scheduler's choice.
PublishAny ==
    /\ \E i \in pending :
        LET r == ChanSend(Updates, published[i])
        IN /\ Updates' = r.buffer
           /\ blocked' = IF r.done THEN blocked ELSE Append(blocked, published[i])
           /\ pending' = pending \ {i}
    /\ spawned' = spawned + 1
    /\ UNCHANGED <<inputText, inputDisabled, running>>
    /\ UNCHANGED <<tuiFrame, planVars, tokenCount, received, rendered>>

NextTui ==
    \/ TuiType
    \/ TuiEnter
    \/ TuiPlanTool
    \/ TuiRunReturn
    \/ PublishAny
    \/ CtlReceive

SpecTui == InitTui /\ [][NextTui]_vars

\* ================================================================ properties
IsToolUse(b) == b.type = "tool_use"
IsToolResult(b) == b.type = "tool_result"
ToolUsesOf(content) == SelectSeq(content, IsToolUse)
UserInputMsg(m) ==
    m.role = UserRole /\ m.content = <<NewTextBlock("input")>>

\* results answers uses block for block: same number, same order, same ids.
Matches(results, uses) ==
    /\ Len(results) = Len(uses)
    /\ \A i \in 1..Len(results) :
        IsToolResult(results[i]) /\ results[i].tool_use_id = uses[i].id

\* The ToolResult blocks of the conversation that carry the id.
ResultsFor(id) ==
    {<<i, j>> \in (1..Len(conv)) \X (1..MaxBlocks) :
        /\ j <= Len(conv[i].content)
        /\ IsToolResult(conv[i].content[j])
        /\ conv[i].content[j].tool_use_id = id}

LastResult == toolResults[Len(toolResults)]
LastUse == ToolUsesOf(AgentMsg.content)[Len(toolResults)]
JustDispatched == pc \in {"dispatch", "toolmsg"} /\ Len(toolResults) > 0
FailedCall(names) ==
    \E i \in DOMAIN calls : calls[i][1] \in names /\ calls[i][2] = "err"
Called(names) == \E i \in DOMAIN calls : calls[i][1] \in names

\* C1: at every call of RunInference (pc = "infer"), every ToolUse block of the
\* conversation is answered by exactly one ToolResult with its id, and that
\* ToolResult stands in the user message right after the ToolUse's message.
C1_ToolUseAnsweredAtInference ==
    pc = "infer" =>
        \A i \in 1..Len(conv) : \A j \in 1..Len(conv[i].content) :
            IsToolUse(conv[i].content[j]) =>
                /\ i < Len(conv)
                /\ conv[i + 1].role = UserRole
                /\ Cardinality(ResultsFor(conv[i].content[j].id)) = 1
                /\ \A p \in ResultsFor(conv[i].content[j].id) : p[1] = i + 1

\* C2: the user message appended after a model message with k >= 1 ToolUse
\* blocks holds exactly k ToolResult blocks, the i-th carrying the id of the
\* i-th ToolUse; the subagent's results line up with its model message too.
C2_ResultsInToolUseOrder ==
    /\ (pc = "infer" /\ inferCalls >= 1) =>
          LET m == conv[Len(conv)]
              a == conv[Len(conv) - 1]
          IN /\ a.role = AssistantRole
             /\ Len(ToolUsesOf(a.content)) >= 1
             /\ m.role = UserRole
             /\ Matches(m.content, ToolUsesOf(a.content))
    /\ (pc = "toolmsg") => Matches(toolResults, ToolUsesOf(AgentMsg.content))
    /\ (pc = "sub" /\ subPc = "toolmsg") => Matches(subResults, ToolUsesOf(subMsg))

\* C2 witness: a two-result message was appended, one result an error and one
\* not, for two different tools.
C2_Witness ==
    /\ pc = "infer"
    /\ inferCalls >= 1
    /\ Len(conv[Len(conv)].content) = 2
    /\ conv[Len(conv)].content[1].is_error
    /\ ~conv[Len(conv)].content[2].is_error
    /\ conv[Len(conv)].content[1].tool_name # conv[Len(conv)].content[2].tool_name

\* C3: a first Run on an empty conversation that returns nil after n
\* tool-using model messages leaves 2n+2 messages: the user text, n pairs of
\* (assistant with ToolUse, user with ToolResults only), the tool-free
\* assistant message; the user text occurs once.
C3_TurnShape ==
    (pc = "idle" /\ retErr = "nil" /\ runs = 1 /\ UserInputMsg(conv[1])) =>
        LET n == inferCalls - 1
        IN /\ Len(conv) = 2 * n + 2
           /\ \A k \in 1..n :
                /\ conv[2 * k].role = AssistantRole
                /\ ToolUsesOf(conv[2 * k].content) # <<>>
                /\ conv[2 * k + 1].role = UserRole
                /\ \A j \in 1..Len(conv[2 * k + 1].content) :
                      IsToolResult(conv[2 * k + 1].content[j])
           /\ conv[2 * n + 2].role = AssistantRole
           /\ ToolUsesOf(conv[2 * n + 2].content) = <<>>
           /\ Cardinality({i \in 1..Len(conv) : UserInputMsg(conv[i])}) = 1

\* C3 witness: such a Run with n = 2.
C3_Witness ==
    /\ pc = "idle" /\ retErr = "nil" /\ runs = 1
    /\ UserInputMsg(conv[1])
    /\ inferCalls = 3
    /\ Len(conv) = 6

\* C4: every message's Sequence is its index in the conversation.
C4_SequenceIsIndex ==
    \A i \in 1..Len(conv) : conv[i].sequence = i - 1

\* C5: when the function of a registered non-delegating tool (plain or plan)
\* returns an error, the ToolResult is an error carrying err.Error(); when it
\* returns none (and no store call failed), the result is the function's
\* output with IsError false; either way it carries the ToolUse id and name.
C5_FunctionErrorIsErrorResult ==
    JustDispatched =>
        \A i \in DOMAIN calls :
            calls[i][1] = "Fn" =>
                /\ LastResult.tool_use_id = LastUse.id
                /\ LastResult.tool_name = LastUse.name
                /\ IF calls[i][2] = "err"
                   THEN LastResult.is_error /\ LastResult.content = <<"tool execution failed">>
                   ELSE ~FailedCall({"GetPlan", "CreatePlan", "SavePlan"}) =>
                            /\ ~LastResult.is_error
                            /\ LastResult.content = <<"output of ", LastUse.name>>

\* C6: a failed tool call (function error, MCP call error, plan store error;
\* an unknown tool likewise) leaves Run inside the turn, with an IsError
\* ToolResult collected for the tool-result message.
C6_ToolFailureFedBack ==
    (FailedCall({"Fn", "Call", "GetPlan", "CreatePlan", "SavePlan"})) =>
        /\ JustDispatched
        /\ LastResult.is_error

\* C7: a ToolUse whose name is in neither the MCP tool map nor the registry is
\* answered by {id, name, IsError, "tool not found"} and no tool function or
\* server is called, in the orchestrator and in the subagent.
C7_UnknownToolNotFound ==
    /\ \A i \in 1..Len(toolResults) :
        LET u == ToolUsesOf(AgentMsg.content)[i]
        IN (u.name \notin MCPToolMap /\ \A t \in 1..Len(ToolBox) : ToolBox[t].Name # u.name) =>
              toolResults[i] = [type |-> "tool_result", tool_use_id |-> u.id,
                                tool_name |-> u.name,
                                content |-> <<"tool not found">>, is_error |-> TRUE]
    /\ (JustDispatched /\ LastUse.name \notin MCPToolMap
          /\ \A t \in 1..Len(ToolBox) : ToolBox[t].Name # LastUse.name) =>
            ~Called({"Fn", "Call", "GetPlan", "CreatePlan", "SavePlan", "Sub.ToNativeMessage"})
    /\ \A i \in 1..Len(subResults) :
        LET u == ToolUsesOf(subMsg)[i]
        IN (\A t \in 1..Len(SubToolBox) : SubToolBox[t].Name # u.name) =>
              subResults[i] = [type |-> "tool_result", tool_use_id |-> u.id,
                               tool_name |-> u.name,
                               content |-> <<"tool not found">>, is_error |-> TRUE]
    /\ (pc = "sub" /\ subPc \in {"dispatch", "toolmsg"} /\ Len(subResults) > 0
          /\ \A t \in 1..Len(SubToolBox) :
                SubToolBox[t].Name # ToolUsesOf(subMsg)[Len(subResults)].name) =>
            ~Called({"Sub.Fn"})

\* C7 witness: the orchestrator has just answered an unknown tool.
C7_Witness ==
    /\ JustDispatched
    /\ LastUse.name = "nope"
    /\ LastResult.content = <<"tool not found">>
    /\ LastResult.is_error

\* C8: a failed ToNativeHistory, ToNativeTools, ToNativeMessage, RunInference
\* or CountTokens makes Run return that error: Run is back at its caller and no
\* further step of this Run follows.
C8_LLMFailureReturns ==
    \A i \in DOMAIN calls :
        (calls[i][1] \in {"ToNativeHistory", "ToNativeTools", "ToNativeMessage",
                          "RunInference", "CountTokens"}
         /\ calls[i][2] = "err") =>
            (pc = "idle" /\ retErr = calls[i][1])

\* C9: the step on which Run returns an error leaves the conversation as the
\* earlier steps of the Run built it; when the first RunInference fails, the
\* submitted user message is the last message.
C9_NoRollbackOnError ==
    [][(pc # "idle" /\ pc' = "idle" /\ retErr' # "nil") =>
          /\ conv' = conv
          /\ (retErr' = "RunInference" /\ inferCalls' = 1) =>
                /\ UserInputMsg(conv'[Len(conv')])
                /\ conv'[Len(conv')].sequence = Len(conv') - 1]_vars

\* C9 witness: the first model call of a Run failed and the user message is
\* the last message of the conversation.
C9_Witness ==
    /\ pc = "idle"
    /\ retErr = "RunInference"
    /\ inferCalls = 1
    /\ UserInputMsg(conv[Len(conv)])

\* C10: when SaveConversation fails, Run returns that error, and neither
\* CountTokens nor Publish is called for the turn.
C10_SaveFailureAborts ==
    FailedCall({"SaveConversation"}) =>
        /\ pc = "idle"
        /\ retErr = "SaveConversation"
        /\ ~Called({"CountTokens", "Publish"})

\* The calls of the latest step, by name.
CallNames == [i \in DOMAIN calls |-> calls[i][1]]
CountOf(name) == Cardinality({i \in DOMAIN calls : calls[i][1] = name})

C12_TokenCountStored ==
    (pc = "idle" /\ retErr = "nil") =>
        /\ Called({"UpdateTokenCount"})
        /\ storedTokenCount = UpdateTokenCount(storedTokenCount, tokenCount)

\* C13: SummarizeHistory(H, threshold) is H when len(H) <= threshold, and
\* otherwise threshold+1 messages: H[0], then the last threshold messages of
\* H in their order; 25 messages with threshold 20 give H[0] and H[5:25].
C13_SummarizeHistory ==
    fn.op = "summarize" =>
        LET H == fn.arg
            t == fn.threshold
            R == fn.res
        IN /\ Len(H) <= t => R = H
           /\ Len(H) > t =>
                /\ Len(R) = t + 1
                /\ R[1] = H[1]
                /\ \A k \in 1..t : R[k + 1] = H[Len(H) - t + k]
           /\ (Len(H) = 25 /\ t = 20) =>
                /\ Len(R) = 21
                /\ R[1].sequence = 0
                /\ \A k \in 2..21 : R[k].sequence = k + 3

\* C13 witness: the history of 25 messages was compacted with threshold 20.
C13_Witness ==
    /\ fn.op = "summarize"
    /\ Len(fn.arg) = 25
    /\ fn.threshold = 20
    /\ Len(fn.res) = 21

\* What TruncateMessage is to make of one block.
TruncatedBlock(b, t) ==
    IF IsToolResult(b) /\ Len(b.content) >= t
    THEN [b EXCEPT !.content =
            SubSeq(b.content, 1, t \div 2) \o TruncationMarker \o
            SubSeq(b.content, Len(b.content) - (t \div 2) + 1, Len(b.content))]
    ELSE b

\* C14: TruncateMessage(msg, threshold) replaces the content of every
\* ToolResult block at least threshold long by head + marker + tail, wherever
\* the block stands, and leaves every other block and every block's
\* ToolUseID, ToolName and IsError as they were.
C14_TruncateEveryLongResult ==
    fn.op \in {"truncate", "truncate2"} =>
        /\ Len(fn.res) = Len(fn.arg)
        /\ \A i \in 1..Len(fn.arg) :
              fn.res[i] = TruncatedBlock(fn.arg[i], fn.threshold)

\* C15: truncating a truncated message again with the same threshold changes
\* nothing, also when the truncated content is still at least threshold long.
C15_TruncateIdempotent ==
    fn.op = "truncate2" => fn.res2 = fn.res

\* C15 witness: a message was truncated twice, the first time changed it, and
\* its truncated content is still at least threshold long.
C15_Witness ==
    /\ fn.op = "truncate2"
    /\ fn.threshold > 0
    /\ fn.res # fn.arg
    /\ \E i \in 1..Len(fn.res) :
          /\ IsToolResult(fn.res[i])
          /\ fn.res[i] # fn.arg[i]
          /\ Len(fn.res[i].content) >= fn.threshold

\* Position of the first call of that name among the calls of the latest
\* step, 0 when there is none.
FirstCall(name) ==
    IF CountOf(name) = 0 THEN 0
    ELSE CHOOSE i \in DOMAIN calls :
            calls[i][1] = name /\ \A j \in 1..(i - 1) : calls[j][1] # name
\* The latest step was a plan-tool invocation.
PlanInvoked == JustDispatched /\ Called({"GetPlan"})
PersistenceCalls == {i \in DOMAIN calls : calls[i][1] \in {"CreatePlan", "SavePlan"}}

C17_SaveAfterEveryPlanCall ==
    [][LET names == [i \in DOMAIN calls' |-> calls'[i][1]]
           fnAt == {i \in DOMAIN calls' : calls'[i][1] = "Fn"}
           saveAt == {i \in DOMAIN calls' : calls'[i][1] = "SavePlan"}
           resolved == \E i \in DOMAIN calls' :
                          \/ calls'[i][1] = "GetPlan" /\ calls'[i][2] = "ok"
                          \/ calls'[i][1] = "CreatePlan" /\ calls'[i][2] = "ok"
       IN /\ resolved =>
               /\ Cardinality(fnAt) = 1
               /\ Cardinality(saveAt) = 1
               /\ \A i \in fnAt : (i + 1) \in saveAt
          /\ (storePlan' # storePlan \/ agentPlan' # agentPlan) =>
               /\ pc = "dispatch"
               /\ CurBlock.name \in PlanToolNames
               /\ resolved]_vars

\* C17 witness: the tool function failed and the plan was saved all the same.
C17_Witness ==
    /\ PlanInvoked
    /\ \E i \in DOMAIN calls :
          /\ calls[i][1] = "Fn" /\ calls[i][2] = "err"
          /\ i < Len(calls)
          /\ calls[i + 1] = Ev("SavePlan", "ok")

\* C18: for a tool routed to an MCP server the ToolResult carries the
\* ToolUse id and a content that is never empty: a call error gives an error
\* result "MCP tool <name> execution error: <err>", a nil or empty result a
\* placeholder without the error flag, any other result its string form
\* without the error flag.
C18_MCPResult ==
    (JustDispatched /\ Called({"Call"})) =>
        LET e == calls[FirstCall("Call")]
            r == LastResult
        IN /\ r.tool_use_id = LastUse.id
           /\ r.tool_name = LastUse.name
           /\ r.content # <<>>
           /\ e[5] = "err" =>
                /\ r.is_error
                /\ r.content = <<"MCP tool ", LastUse.name, " execution error: ", "call failed">>
           /\ e[5] \in {"nil", "empty"} =>
                /\ ~r.is_error
                /\ r.content \in
                     {<<"Tool executed successfully but returned no content">>,
                      <<"Tool executed successfully but returned empty content">>}
           /\ e[5] = "text" =>
                /\ ~r.is_error
                /\ r.content = <<"mcp output">>

\* C18 witness: an MCP call returned an empty result and was answered with
\* the placeholder.
C18_Witness ==
    /\ JustDispatched
    /\ Called({"Call"})
    /\ calls[FirstCall("Call")][5] = "empty"
    /\ LastResult.content = <<"Tool executed successfully but returned empty content">>

\* C19: every dispatch of a ToolUse by Run ends with one call of onDelta, after
\* the tool (local, MCP, plan or delegating) is done and before the next
\* ToolUse is dispatched, whether the tool succeeded or failed; the summary
\* names the tool and its error flag is the IsError of the ToolResult that
\* answers the ToolUse.  No other step calls onDelta with a summary.
C19_OnDeltaOncePerToolUse ==
    [][LET deltas == {i \in DOMAIN calls' : calls'[i][1] = "onDelta"}
           ended == pc \in {"dispatch", "sub"} /\ pc' # "sub"
       IN IF ended
          THEN /\ deltas = {Len(calls')}
               /\ Len(toolResults') = Len(toolResults) + 1
               /\ LET r == toolResults'[Len(toolResults')]
                  IN /\ r.tool_use_id = CurBlock.id
                     /\ calls'[Len(calls')] =
                          <<"onDelta", IF r.is_error THEN "error" ELSE "success",
                            CurBlock.name>>
          ELSE deltas = {}]_vars

\* C20: the channel never holds more than 10 snapshots; a Publish issued
\* while 10 are buffered waits, and the buffer loses no snapshot and has none
\* overwritten: it changes only by the subscriber taking the oldest snapshot
\* or, when there is room, by a snapshot joining at the end.
C20_ChannelBounded ==
    [][/\ Len(Updates') <= ChanCapacity
       /\ \/ Updates' = Updates
          \/ Updates # <<>> /\ Updates' = Tail(Updates)
          \/ /\ Len(Updates) < ChanCapacity
             /\ Len(Updates') = Len(Updates) + 1
             /\ SubSeq(Updates', 1, Len(Updates)) = Updates
       /\ (Len(Updates) = ChanCapacity /\ spawned' = spawned + 1) =>
             /\ Updates' = Updates
             /\ \E withPlan \in BOOLEAN :
                   blocked' = Append(blocked, Snapshot(spawned', withPlan))
       /\ (Len(Updates) = ChanCapacity /\ Updates' = Updates) =>
             SubSeq(blocked', 1, Len(blocked)) = blocked]_vars

\* C20 witness: ten snapshots are buffered and a Publish is waiting.
C20_Witness ==
    /\ Len(Updates) = ChanCapacity
    /\ blocked # <<>>

\* C21: Run and the plan-tool dispatch never wait for Publish.  With the
\* channel full and nobody receiving, the step that ends a turn (save, count,
\* publish, return) and the dispatch of a plan tool can always be taken: the
\* Publish they issue runs in a task of its own.
C21_PublishNeverBlocks ==
    /\ pc = "finish" => ENABLED FinishStep
    /\ (/\ pc = "dispatch"
        /\ CurBlock.name \in PlanToolNames
        /\ CurBlock.name \notin MCPToolMap) => ENABLED DispatchPlan

\* A Run has returned nil and a plan tool has answered while the channel is
\* full and their Publish tasks wait on it.
C21_Witness ==
    /\ Len(Updates) = ChanCapacity
    /\ Len(blocked) >= 2
    /\ \E i \in DOMAIN blocked : blocked[i].Plan # NilPlan
    /\ \E i \in DOMAIN blocked : blocked[i].Plan = NilPlan
    /\ pc = "idle"
    /\ retErr = "nil"

\* The snapshots of a sequence, with their multiplicities.
BagOfSeq(q) ==
    [x \in {q[i] : i \in DOMAIN q} |-> Cardinality({i \in DOMAIN q : q[i] = x})]
InFlight(buffer, waiting) == BagOfSeq(buffer) (+) BagOfSeq(waiting)

\* C22: every snapshot passed to Publish is received exactly once.  Each
\* Publish adds exactly its snapshot to those in flight (buffered or held by
\* a waiting task), each receive renders and removes the oldest buffered one,
\* and nothing else changes what is in flight, so published = received +
\* in flight at all times.  The buffer shrinks only by a receive and a
\* waiting task completes only when the buffer has room, so with nobody
\* receiving the tasks beyond the 10 buffered ones wait forever.  With a
\* subscriber that keeps receiving, finally everything published has been
\* received.
C22_EverySnapshotReceivedOnce ==
    /\ [](spawned = received + Len(Updates) + Len(blocked))
    /\ [](Len(Updates) = ChanCapacity => ~ENABLED CtlResume)
    /\ [][/\ received' = received + 1 =>
               /\ Updates # <<>>
               /\ rendered' = Head(Updates)
               /\ Updates' = Tail(Updates)
               /\ blocked' = blocked
               /\ spawned' = spawned
          /\ received' # received + 1 =>
               /\ received' = received
               /\ rendered' = rendered
          /\ spawned' # spawned =>
               /\ spawned' = spawned + 1
               /\ received' = received
               /\ \E withPlan \in BOOLEAN :
                     InFlight(Updates', blocked') =
                       InFlight(Updates, blocked)
                         (+) SetToBag({Snapshot(spawned', withPlan)})
          /\ (spawned' = spawned /\ received' = received) =>
               InFlight(Updates', blocked') = InFlight(Updates, blocked)
          /\ Len(Updates') < Len(Updates) => received' = received + 1
          /\ Len(blocked') < Len(blocked) => Len(Updates) < ChanCapacity
         ]_vars
    /\ <>[](Updates = <<>> /\ blocked = <<>> /\ received = spawned)

\* More snapshots than the channel holds have been published, some by tasks
\* that had to wait, and the subscriber has received every one of them.
C22_Witness ==
    /\ spawned = MaxPublish
    /\ spawned > ChanCapacity
    /\ received = spawned
    /\ Updates = <<>>
    /\ blocked = <<>>
    /\ rendered.Plan # NilPlan

\* The records of what the subagent's Run returned in the latest step.
SubRunReturns == {i \in DOMAIN calls : calls[i][1] = "Subagent.Run"}
SubCallFailed ==
    \E i \in DOMAIN calls :
        /\ calls[i][1] \in {"Sub.ToNativeMessage", "Sub.RunInference"}
        /\ calls[i][2] = "err"

\* C23: Subagent.Run returns either a message without ToolUse blocks and a nil
\* error, or a nil message and an error, never a message that still holds a
\* ToolUse; when a ToNativeMessage or RunInference call of the subagent's
\* loop has failed, Run has returned a nil message and a non-nil error.
C23_SubagentRunReturn ==
    /\ \A i \in SubRunReturns :
          \/ /\ ~calls[i][3].isNil
             /\ ToolUsesOf(calls[i][3].content) = <<>>
             /\ calls[i][4] = "nil"
          \/ /\ calls[i][3].isNil
             /\ calls[i][4] # "nil"
    /\ SubCallFailed =>
          /\ SubRunReturns # {}
          /\ \A i \in SubRunReturns : calls[i][3].isNil /\ calls[i][4] # "nil"

\* The subagent has used a tool, and the translation of its tool results has
\* failed: Run has returned nil and the error.
C23_Witness ==
    /\ subRounds = 1
    /\ subResults # <<>>
    /\ \E i \in DOMAIN calls :
          calls[i] = <<"Subagent.Run", "returned", NilMessage, "Sub.ToNativeMessage">>

\* The records of what runSubagent returned in the latest step.
RunSubagentReturns == {i \in DOMAIN calls : calls[i][1] = "runSubagent"}
DecodeFailed == \E i \in DOMAIN calls : calls[i] = Ev("Unmarshal", "err")
SubagentCalls ==
    {i \in DOMAIN calls :
        calls[i][1] \in {"Sub.ToNativeMessage", "Sub.RunInference", "Sub.Fn",
                         "Subagent.Run"}}

\* C24: when the raw input does not decode, runSubagent returns a nil message
\* and an error and the subagent's loop is not started: no call reaches the
\* subagent's client.  When the subagent's Run fails, runSubagent returns a
\* nil message and the error Run returned.
C24_RunSubagentErrors ==
    /\ DecodeFailed =>
          /\ RunSubagentReturns # {}
          /\ \A i \in RunSubagentReturns :
                calls[i][3].isNil /\ calls[i][4] # "nil"
          /\ SubagentCalls = {}
          /\ pc # "sub"
          /\ subPc = "off"
    /\ \A j \in SubRunReturns :
          calls[j][4] # "nil" =>
            /\ RunSubagentReturns # {}
            /\ \A i \in RunSubagentReturns :
                  calls[i][3].isNil /\ calls[i][4] = calls[j][4]

\* A delegating tool was called with an input that does not decode.
C24_Witness ==
    /\ DecodeFailed
    /\ \E i \in RunSubagentReturns : calls[i][3].isNil /\ calls[i][4] = "Unmarshal"

\* C25: when the dispatch of a delegating tool fails (the input does not
\* decode, or the subagent's Run returns an error), the ToolUse is answered by
\* an error ToolResult whose content is the error text and the turn goes on;
\* nothing panics.  Only the message of a successful delegation is truncated
\* and folded into the output.
C25_DelegationFailureIsErrorResult ==
    \A i \in RunSubagentReturns :
        /\ pc # "crashed"
        /\ ~Called({"panic"})
        /\ JustDispatched
        /\ IF calls[i][4] # "nil"
           THEN /\ LastResult.is_error
                /\ LastResult.content = <<calls[i][4]>>
           ELSE /\ ~LastResult.is_error
                /\ LastResult.content =
                     FoldContent(BaseTruncateMessage(calls[i][3].content,
                                                     TruncateThreshold), 1)

\* A step of a delegation: the dispatch of a delegating ToolUse, or a step of
\* the subagent's loop.
Delegating ==
    \/ pc = "sub"
    \/ /\ pc = "dispatch"
       /\ CurBlock.name \notin MCPToolMap
       /\ FindTool(ToolBox, CurBlock.name, 1) # 0
       /\ ToolBox[FindTool(ToolBox, CurBlock.name, 1)].IsSubTool

\* C26: a running delegation never saves the conversation, never publishes
\* and never appends to the parent's conversation, plan or token count.  The
\* subagent's tool set holds no delegating and no plan tool; a ToolUse of the
\* subagent that names one is answered "tool not found" without any function,
\* plan store or further subagent being called, so delegations never nest.
C26_DelegationFrame ==
    [][Delegating =>
         /\ conv' = conv
         /\ native' = native
         /\ published' = published
         /\ agentPlan' = agentPlan
         /\ storePlan' = storePlan
         /\ tokenCount' = tokenCount
         /\ \A i \in DOMAIN calls' :
               calls'[i][1] \notin {"SaveConversation", "Publish", "CountTokens",
                                    "GetPlan", "CreatePlan", "SavePlan"}
         /\ \A i \in DOMAIN SubToolBox :
               /\ ~SubToolBox[i].IsSubTool
               /\ SubToolBox[i].Name \notin PlanToolNames
         /\ (pc = "sub" /\ subPc = "dispatch") =>
               /\ \A i \in DOMAIN calls' :
                     calls'[i][1] \notin {"Unmarshal", "Subagent.Run", "runSubagent"}
               /\ LET blk == subMsg[subIdx]
                  IN (\/ blk.name \in PlanToolNames
                      \/ \E j \in DOMAIN ToolBox :
                            ToolBox[j].IsSubTool /\ ToolBox[j].Name = blk.name) =>
                        /\ calls' = <<>>
                        /\ subResults' =
                             Append(subResults,
                                    NewToolResultBlock(blk.id, blk.name,
                                                       <<"tool not found">>, TRUE))
      ]_vars

\* The subagent's model has asked for the delegating tool and for a plan tool
\* and both were answered "tool not found".
C26_Witness ==
    /\ pc = "sub"
    /\ \E i \in DOMAIN subResults :
          /\ subResults[i].tool_name = "finder"
          /\ subResults[i].content = <<"tool not found">>
    /\ \E i \in DOMAIN subResults :
          /\ subResults[i].tool_name = "plan_write"
          /\ subResults[i].content = <<"tool not found">>

\* C27: for both adapters, streaming or not, RunInference returns an error
\* and no message when the native history is empty or the provider call
\* fails (a stream ending with an error included), and returns a message only
\* when the call completed without error.
C27_RunInferenceErrors ==
    fn.op = "RunInference" =>
        /\ (fn.arg.emptyHistory \/ fn.arg.outcome = "failed") =>
              /\ fn.res.msg.isNil
              /\ fn.res.err # "nil"
        /\ ~fn.res.msg.isNil =>
              /\ fn.arg.outcome = "ok"
              /\ fn.res.err = "nil"
        /\ fn.res.msg.isNil <=> fn.res.err # "nil"

\* C28: for both adapters, a successful ToNativeMessage appends exactly one
\* native message; a nil message or a message whose role is not a recognized
\* one gets an error, and an error leaves the native history as it was.
C28_ToNativeMessage ==
    [][fn'.op = "ToNativeMessage" =>
         /\ fn'.res = "nil" =>
               /\ Len(native') = Len(native) + 1
               /\ SubSeq(native', 1, Len(native)) = native
         /\ fn'.res # "nil" => native' = native
         /\ (fn'.arg.isNil \/ fn'.arg.role \notin RecognizedRoles) =>
               fn'.res # "nil"
      ]_vars

\* C29: for both adapters, ToNativeTools with an empty tool list returns no
\* error and leaves the adapter's tool set as it was.
C29_EmptyToolsNoOp ==
    [][(fn'.op = "ToNativeTools" /\ fn'.arg = <<>>) =>
         /\ fn'.res = "nil"
         /\ nativeTools' = nativeTools
      ]_vars

\* C30: the context passed to Run is the context given to every RunInference
\* call and to every MCP server Call made during that Run, so that cancelling
\* it reaches a call in flight.
C30_ContextThreaded ==
    \A i \in DOMAIN calls :
        /\ calls[i][1] = "RunInference" => calls[i][3] = "ctx"
        /\ calls[i][1] = "Call" => calls[i][6] = "ctx"

\* What Get returns for a saved conversation: its messages, in order, each
\* with its position as Sequence.
Renumbered(messages) ==
    [i \in DOMAIN messages |-> [messages[i] EXCEPT !.sequence = i - 1]]
ConversationRows(conversations, id) ==
    Cardinality({k \in DOMAIN conversations : conversations[k].id = id})

StoredBodies(conversations, table) ==
    LET g == Get(conversations, table, ConvID).messages
    IN [i \in DOMAIN g |-> [role |-> g[i].role, content |-> g[i].content]]

\* a is b with some elements left out.
RECURSIVE IsSubsequence(_, _)
IsSubsequence(a, b) ==
    IF a = <<>> THEN TRUE
    ELSE IF b = <<>> THEN FALSE
    ELSE IF Head(a) = Head(b) THEN IsSubsequence(Tail(a), Tail(b))
    ELSE IsSubsequence(a, Tail(b))

\* C38: every step that changes the stored messages of the conversation keeps
\* all the messages the store held before, in their order: a later successful
\* Run only adds messages to the persisted conversation.
C38_StoreOnlyGrows ==
    [][dbMessages' # dbMessages =>
          IsSubsequence(StoredBodies(dbConversations, dbMessages),
                        StoredBodies(dbConversations', dbMessages'))]_vars

\* C37: at every call of RunInference by Run the native history holds one
\* native message per message of the conversation, in the same order.
C37_NativeIsImage ==
    pc = "infer" =>
        native = [i \in DOMAIN conv |-> NativeOf(conv[i])]

\* The ids of the blocks of one variant in a history.
BlockIds(history, type, field) ==
    UNION {{history[i].content[j][field] :
                j \in {k \in DOMAIN history[i].content :
                            history[i].content[k].type = type}} :
           i \in DOMAIN history}

\* C36: the conversation compacted at the start of Run holds a ToolResult for
\* an id exactly when it holds the ToolUse of that id.
C36_CompactionKeepsPairs ==
    fn.op = "compact" =>
        BlockIds(fn.res, "tool_result", "tool_use_id") = BlockIds(fn.res, "tool_use", "id")

\* The step published a {Plan} snapshot.
PlanPublished ==
    /\ Len(published') = Len(published) + 1
    /\ published'[Len(published')].Plan # NilPlan

\* C33: the cached plan changes only in a step whose SavePlan succeeded; after
\* a successful SavePlan it is the plan the store now holds; a {Plan} snapshot
\* is published exactly in the steps whose SavePlan succeeded.  A plan-tool
\* dispatch whose GetPlan failed (other than not found) or whose CreatePlan
\* failed calls neither the tool function nor SavePlan, leaves the cached plan
\* and the published snapshots as they were, and yields an IsError result.
C33_PlanFrame ==
    [][LET saved == \E i \in DOMAIN calls' :
                        calls'[i][1] = "SavePlan" /\ calls'[i][2] = "ok"
           aborted == \E i \in DOMAIN calls' :
                        calls'[i][1] \in {"GetPlan", "CreatePlan"} /\ calls'[i][2] = "err"
       IN /\ agentPlan' # agentPlan => saved
          /\ saved => agentPlan' = storePlan' /\ agentPlan' # NilPlan
          /\ PlanPublished <=> saved
          /\ PlanPublished => published'[Len(published')].Plan = agentPlan'
          /\ aborted =>
               /\ \A i \in DOMAIN calls' : calls'[i][1] \notin {"Fn", "SavePlan"}
               /\ agentPlan' = agentPlan
               /\ published' = published
               /\ Len(toolResults') = Len(toolResults) + 1
               /\ toolResults'[Len(toolResults')].is_error]_vars

\* C33 witness: after a plan-tool call that saved and published the plan, a
\* second one failed in GetPlan: the cached plan and the one published
\* snapshot are those of the first call, and the result is an error.
C33_Witness ==
    /\ JustDispatched
    /\ \E i \in DOMAIN calls : calls[i][1] = "GetPlan" /\ calls[i][2] = "err"
    /\ LastResult.is_error
    /\ agentPlan # NilPlan
    /\ agentPlan = storePlan
    /\ Len(published) = 1
    /\ published[1].Plan = agentPlan

\* The records of Server.Call among the calls of the latest step.
ServerCalls == {i \in DOMAIN calls : calls[i][1] = "Call"}
Registered(name) == \E t \in DOMAIN ToolBox : ToolBox[t].Name = name

\* C34: the dispatch of a ToolUse whose name is in the MCP tool map makes one
\* Server.Call, on the server that owns the name, with the name and with the
\* decoded arguments or an empty map when the raw input does not decode, and
\* runs no tool function, plan call or delegation, also when the registry
\* holds a tool of that name; no other step calls a server.
C34_MCPRouting ==
    /\ JustDispatched /\ LastUse.name \in MCPToolMap =>
          /\ Cardinality(ServerCalls) = 1
          /\ \A i \in ServerCalls :
                /\ Len(calls[i]) = 7
                /\ calls[i][3] = LastUse.name
                /\ calls[i][4] = (IF LastUse.input = "obj" THEN "args" ELSE "empty map")
                /\ calls[i][7] = MCPServer(LastUse.name)
          /\ ~Called({"Fn", "GetPlan", "CreatePlan", "SavePlan", "Subagent.Run",
                      "runSubagent"})
    /\ ServerCalls # {} => JustDispatched /\ LastUse.name \in MCPToolMap

\* C34 witness: a ToolUse naming a registry tool that an MCP server has
\* registered too, with a raw input that does not decode, went to the server
\* with an empty argument map.
C34_Witness ==
    /\ JustDispatched
    /\ LastUse.name \in MCPToolMap
    /\ Registered(LastUse.name)
    /\ LastUse.input = "bad"
    /\ \E i \in ServerCalls : calls[i][4] = "empty map"

\* Index of the user text of the current Run: the last user-input message.
LastInput ==
    IF \E i \in DOMAIN conv : UserInputMsg(conv[i])
    THEN CHOOSE i \in DOMAIN conv :
            UserInputMsg(conv[i]) /\ \A j \in (i + 1)..Len(conv) : ~UserInputMsg(conv[j])
    ELSE 0
\* The tool-using model messages the current Run has appended.
ToolRounds ==
    Cardinality({i \in (LastInput + 1)..Len(conv) :
                    conv[i].role = AssistantRole /\ ToolUsesOf(conv[i].content) # <<>>})

\* C35: a Run that returned nil made one RunInference call more than the
\* model sent tool-using messages in it, and the latest message is a model
\* message without ToolUse; a Run returns an error only in a step in which
\* the call of that name failed.  So a Run whose calls all succeed is over
\* only after a tool-free model message, however many tool-using ones came
\* before.
C35_OneCallPerRound ==
    /\ (pc = "idle" /\ retErr = "nil") =>
          /\ LastInput # 0
          /\ inferCalls = ToolRounds + 1
          /\ AgentMsg.role = AssistantRole
          /\ ToolUsesOf(AgentMsg.content) = <<>>
    /\ (pc = "idle" /\ retErr \notin {"none", "nil"}) => FailedCall({retErr})
    /\ pc \in {"dispatch", "sub", "toolmsg"} =>
          /\ ToolUsesOf(AgentMsg.content) # <<>>
          /\ inferCalls = ToolRounds

\* C35 witness: a second Run returned nil after two tool-using model messages
\* and three RunInference calls.
C35_Witness ==
    /\ pc = "idle"
    /\ retErr = "nil"
    /\ runs = 2
    /\ ToolRounds = 2
    /\ inferCalls = 3

\* C32: at most one Run executes at any time; the input is disabled exactly
\* while a Run executes (disabled in the step that starts it, enabled again in
\* the step in which it returns), and while it is disabled no Run can be
\* started.
C32_OneRunAtATime ==
    /\ running \in {0, 1}
    /\ inputDisabled <=> running = 1
    /\ inputDisabled => ~ENABLED TuiEnter

\* C32 witness: a Run has returned, the next question was submitted and its
\* Run executes with the input disabled.
C32_Witness ==
    /\ running = 1
    /\ inputDisabled
    /\ inputText = ""
    /\ published # <<>>

\* C39: snapshots reach the subscriber in the order of the Publish calls: the
\* k-th snapshot the subscriber receives is the k-th snapshot published.
C39_ReceivedInPublishOrder ==
    (received >= 1 /\ received <= Len(published)) =>
        rendered = published[received]

\* The plan of the latest {Plan} snapshot and the count of the latest
\* {TokenCount} snapshot among those published, or what was rendered at the
\* start when there is none.
PlanSnapshots == {i \in DOMAIN published : published[i].Plan # NilPlan}
CountSnapshots == {i \in DOMAIN published : published[i].Plan = NilPlan}
Latest(indices) == CHOOSE i \in indices : \A j \in indices : j <= i
LatestPlan ==
    IF PlanSnapshots = {} THEN InitialState.Plan
    ELSE published[Latest(PlanSnapshots)].Plan
LatestTokenCount ==
    IF CountSnapshots = {} THEN InitialState.TokenCount
    ELSE published[Latest(CountSnapshots)].TokenCount

\* C40: once the subscriber has rendered the latest snapshot published, the
\* screen shows the most recently published plan and the most recently
\* published token count.
C40_ShowsLatestPlanAndCount ==
    (/\ received >= 1
     /\ received = Len(published)
     /\ rendered = published[received]) =>
        Shown(rendered) = Shown([Plan |-> LatestPlan, TokenCount |-> LatestTokenCount])
====
